---- MODULE Spec2Model ----
(***************************************************************************)
(* Olympic medal dashboard: the load -> normalize -> filter -> aggregate   *)
(* pipeline of app.py (Overview), pages/Global_Analysis.py,                *)
(* pages/Sports_and_Events.py and pages/bonus.py.                          *)
(*                                                                         *)
(* A table (pandas DataFrame) is a record [cols, rows]: cols is the        *)
(* ordered sequence of column names, rows the sequence of rows, each row a *)
(* sequence of cells aligned with cols.  A missing value is NaN in a text  *)
(* column.  The CSV files never carry two columns whose names are equal    *)
(* after lower-casing, and no medal-totals file carries a continent or     *)
(* region column.                                                          *)
(***************************************************************************)
EXTENDS Integers, Sequences, FiniteSets, TLC

VARIABLES files, cache, page, sel, view, active_page, navbar, message, other

vars == <<files, cache, page, sel, view, active_page, navbar, message, other>>

\* ------------------------------------------------------------------ bounds
\* Largest medal count of one cell of a generated medal-totals file.
MaxMedal == 2
\* head(10) of the Overview ranking and head(20) of the Global Analysis
\* ranking, scaled down so that the cut removes rows of the small tables.
TopNOverview == 2
TopNGlobal == 2

\* ------------------------------------------------------------ cell values
NaN == "NaN"

\* str.lower() on the column names that occur in the files.
Lower(c) ==
  CASE c = "NOC" -> "noc"
    [] c = "Country_Code" -> "country_code"
    [] c = "Code" -> "code"
    [] c = "Gold" -> "gold"
    [] c = "Silver" -> "silver"
    [] c = "Bronze" -> "bronze"
    [] c = "Gold Medal" -> "gold medal"
    [] c = "Silver Medal" -> "silver medal"
    [] c = "Bronze Medal" -> "bronze medal"
    [] c = "Total" -> "total"
    [] c = "Continent" -> "continent"
    [] c = "Sport" -> "sport"
    [] c = "Medal" -> "medal"
    [] OTHER -> c

\* The proper (needle, haystack) pairs of the Python test `needle in haystack`
\* over the column names that occur in the files (case-sensitive).
ProperSubstrings ==
  { <<"gold", "gold medal">>, <<"silver", "silver medal">>,
    <<"bronze", "bronze medal">>, <<"medal", "gold medal">>,
    <<"medal", "silver medal">>, <<"medal", "bronze medal">>,
    <<"medal", "medal_type">>, <<"medal", "medal_date">>,
    <<"Medal", "Gold Medal">>, <<"Medal", "Silver Medal">>,
    <<"Medal", "Bronze Medal">>,
    <<"code", "country_code">>, <<"Code", "Country_Code">>,
    <<"country", "country_code">>, <<"country", "country_name">>,
    <<"country", "country_long">>, <<"country", "country_x">>,
    <<"country", "country_y">> }

\* Python: needle in haystack (str).
StrIn(needle, haystack) ==
  needle = haystack \/ <<needle, haystack>> \in ProperSubstrings

\* sorted() on country codes / sport names: the values in ascending order.
SortedValues ==
  << "AUS", "Africa", "All sports", "Asia", "Athletics", "Bronze Medal",
     "CHN", "China", "Cycling", "ESP", "Europe", "FRA", "Female", "GER",
     "Gold Medal", "Gymnastics", "JPN", "KEN", "Male", "North America",
     "Oceania", "Other", "Silver Medal", "Swimming", "USA",
     "United States" >>

Rank(v) == CHOOSE i \in DOMAIN SortedValues : SortedValues[i] = v

\* ----------------------------------------------------------- DataFrames
Table(cols, rows) == [cols |-> cols, rows |-> rows]

\* c in df.columns
HasCol(df, c) == \E i \in DOMAIN df.cols : df.cols[i] = c

\* position of column c (the first one of that name)
ColIdx(df, c) ==
  CHOOSE i \in DOMAIN df.cols :
    df.cols[i] = c /\ \A j \in 1..(i - 1) : df.cols[j] # c

\* df.empty
Empty(df) == Len(df.rows) = 0 \/ Len(df.cols) = 0

\* df.rename(columns={old: new})
Rename(df, old, new) ==
  [df EXCEPT !.cols =
     [i \in DOMAIN df.cols |-> IF df.cols[i] = old THEN new ELSE df.cols[i]]]

\* df[c] = vals  (vals: one value per row); a new column is appended
SetCol(df, c, vals) ==
  IF HasCol(df, c)
  THEN [df EXCEPT !.rows =
          [r \in DOMAIN df.rows |->
             [df.rows[r] EXCEPT ![ColIdx(df, c)] = vals[r]]]]
  ELSE Table(Append(df.cols, c),
             [r \in DOMAIN df.rows |-> Append(df.rows[r], vals[r])])

\* df[c] = v  (a scalar broadcast to every row)
SetConst(df, c, v) == SetCol(df, c, [r \in DOMAIN df.rows |-> v])

\* the sum over the listed cell positions of one row
\* (a position listed twice is added twice, as df[[c, c]].sum(axis=1) does)
RECURSIVE SumAt(_, _)
SumAt(row, idxs) ==
  IF idxs = <<>> THEN 0 ELSE row[Head(idxs)] + SumAt(row, Tail(idxs))

\* df[cols].sum(axis=1)
RowSums(df, cols) ==
  LET idxs == [k \in DOMAIN cols |-> ColIdx(df, cols[k])]
  IN  [r \in DOMAIN df.rows |-> SumAt(df.rows[r], idxs)]

\* df[c].sum()
RECURSIVE SumSeq(_)
SumSeq(s) == IF s = <<>> THEN 0 ELSE Head(s) + SumSeq(Tail(s))

ColSum(df, c) ==
  SumSeq([r \in DOMAIN df.rows |-> df.rows[r][ColIdx(df, c)]])

\* df[df[c].isin(values)]  (NaN is in no selection)
IsIn(df, c, values) ==
  LET i == ColIdx(df, c)
  IN  [df EXCEPT !.rows = SelectSeq(df.rows, LAMBDA row : row[i] \in values)]

\* df[c].dropna().unique(), as a set
Unique(df, c) ==
  {df.rows[r][ColIdx(df, c)] : r \in DOMAIN df.rows} \ {NaN}

\* df[c].nunique()
NUnique(df, c) == Cardinality(Unique(df, c))

\* df[[k, c]]
Project2(df, k, c) ==
  Table(<<k, c>>,
        [r \in DOMAIN df.rows |->
           <<df.rows[r][ColIdx(df, k)], df.rows[r][ColIdx(df, c)]>>])

\* df.drop_duplicates(k): the first row of every key value is kept
DropDuplicates(df, k) ==
  LET i == ColIdx(df, k)
      first == {r \in DOMAIN df.rows :
                  \A q \in 1..(r - 1) : df.rows[q][i] # df.rows[r][i]}
      RECURSIVE Keep(_)
      Keep(r) == IF r > Len(df.rows) THEN <<>>
                 ELSE (IF r \in first THEN <<df.rows[r]>> ELSE <<>>)
                      \o Keep(r + 1)
  IN  [df EXCEPT !.rows = Keep(1)]

\* left.merge(right, on=k, how="left") for a two-column right table <<k, c>>:
\* every left row, in order, once per right row of the same key (in the
\* right table's order), or once with NaN when no right row has the key.
\* A column c of the left table clashes: the two become c_x and c_y.
MergeLeft(left, right, k, c) ==
  LET li == ColIdx(left, k)
      clash == HasCol(left, c)
      cols == [i \in DOMAIN left.cols |->
                 IF clash /\ left.cols[i] = c THEN c \o "_x" ELSE left.cols[i]]
              \o << IF clash THEN c \o "_y" ELSE c >>
      Matches(lrow) == SelectSeq(right.rows, LAMBDA rr : rr[1] = lrow[li])
      RowsFor(lrow) ==
        LET m == Matches(lrow)
        IN  IF m = <<>> THEN << Append(lrow, NaN) >>
            ELSE [j \in DOMAIN m |-> Append(lrow, m[j][2])]
      RECURSIVE Out(_)
      Out(r) == IF r > Len(left.rows) THEN <<>>
                ELSE RowsFor(left.rows[r]) \o Out(r + 1)
  IN  Table(cols, Out(1))

\* df[c] = df[c].fillna(v)
FillNa(df, c, v) ==
  LET i == ColIdx(df, c)
  IN  [df EXCEPT !.rows =
         [r \in DOMAIN df.rows |->
            IF df.rows[r][i] = NaN THEN [df.rows[r] EXCEPT ![i] = v]
            ELSE df.rows[r]]]

\* ------------------------------------------------------- column resolvers
None == "None"

\* the first column whose lower-cased name equals or contains medal_name
FirstMatch(df, medal_name) ==
  LET hits == {i \in DOMAIN df.cols :
                 LET cl == Lower(df.cols[i])
                 IN  cl = medal_name \/ StrIn(medal_name, cl)}
  IN  IF hits = {} THEN None
      ELSE df.cols[CHOOSE i \in hits : \A j \in hits : i <= j]

get_medal_column(df, medal_name) == FirstMatch(df, medal_name)

get_total_column(df) == FirstMatch(df, "total")

\* the first of the candidate names that is a column of df, else None
FirstCandidate(df, cands) ==
  LET hits == {k \in DOMAIN cands : HasCol(df, cands[k])}
  IN  IF hits = {} THEN None
      ELSE cands[CHOOSE k \in hits : \A j \in hits : k <= j]

get_country_column(df) ==
  FirstCandidate(df, <<"country", "country_long", "country_name",
                       "country_x", "country_y">>)

\* {c.lower(): c for c in df.columns}[low]: the last column that lower-cases
\* to low (None when there is none)
LowerMapping(df, low) ==
  LET hits == {i \in DOMAIN df.cols : Lower(df.cols[i]) = low}
  IN  IF hits = {} THEN None
      ELSE df.cols[CHOOSE i \in hits : \A j \in hits : j <= i]

\* rename to "noc" the column found under the first of the aliases, in order
RenameFirstAlias(df, aliases) ==
  LET hits == {k \in DOMAIN aliases : LowerMapping(df, aliases[k]) # None}
  IN  IF hits = {} THEN df
      ELSE Rename(df,
                  LowerMapping(df, aliases[CHOOSE k \in hits :
                                             \A j \in hits : k <= j]),
                  "noc")

\* the aliases of the country-code column
NocAliases == {"noc", "country_code", "code"}

normalize_noc_column(df) == RenameFirstAlias(df, <<"noc", "country_code", "code">>)

\* ------------------------------------------------------------- the files
FileNames ==
  {"athletes", "events", "medals_total", "nocs", "countries", "medallists",
   "medals"}

NoTable == Table(<<>>, <<>>)

\* pd.read_csv succeeds exactly for the files that exist
Exists(f, name) == name \in f.exists

LoaderFilesExist(f) ==
  {"athletes", "events", "medals_total", "nocs"} \subseteq f.exists

\* pd.read_csv(name): FileNotFoundError for a file that does not exist,
\* EmptyDataError for a file without any column, else the table
ReadError(f, name) ==
  IF ~Exists(f, name) THEN "FileNotFoundError"
  ELSE IF f[name] = NoTable THEN "EmptyDataError"
  ELSE "ok"

\* the exception of the first read that fails, reading names in order
FirstReadError(f, names) ==
  LET bad == {i \in DOMAIN names : ReadError(f, names[i]) # "ok"}
  IN  IF bad = {} THEN "ok"
      ELSE ReadError(f, names[CHOOSE i \in bad : \A j \in bad : i <= j])

\* the files load_data reads, in the order it reads them
LoaderFiles == <<"athletes", "events", "medals_total", "nocs">>

\* what a loader returns (and st.cache_data keeps); status "none": not yet
\* loaded, "ok": returned, any other value: the exception the loader raised.
\* medalists is the fifth table of the Global Analysis loader, without
\* columns where the loader returns None
Loaded(status, athletes, events, medals_total, nocs) ==
  [status |-> status, athletes |-> athletes, events |-> events,
   medals_total |-> medals_total, nocs |-> nocs, medalists |-> NoTable]

NotLoaded == Loaded("none", NoTable, NoTable, NoTable, NoTable)

\* ------------------------------------------- Overview / shared load_data
AppNormalizeMedals(df) == RenameFirstAlias(df, <<"noc", "country_code">>)

AppNormalizeNocs(df) == RenameFirstAlias(df, <<"noc", "code">>)

AppAddTotal(df) ==
  LET medal_cols ==
        SelectSeq(df.cols,
                  LAMBDA c : Lower(c) \in {"gold", "silver", "bronze"})
  IN  IF ~HasCol(df, "total") /\ medal_cols # <<>>
      THEN SetCol(df, "total", RowSums(df, medal_cols))
      ELSE df

NocsCountryColumn(nocs) ==
  FirstCandidate(nocs, <<"country", "country_name", "country_long">>)

AppMergeCountry(medals_total, nocs) ==
  LET country_col == NocsCountryColumn(nocs)
  IN  IF HasCol(medals_total, "noc") /\ HasCol(nocs, "noc")
         /\ country_col # None
      THEN Rename(MergeLeft(medals_total,
                            Project2(nocs, "noc", country_col),
                            "noc", country_col),
                  country_col, "country")
      ELSE medals_total

\* a faulty loader: only the table of a missing file is replaced by its
\* fallback
AppLoadDataPerFile(f) ==
  IF \E i \in DOMAIN LoaderFiles : ReadError(f, LoaderFiles[i]) = "EmptyDataError"
  THEN Loaded("EmptyDataError", NoTable, NoTable, NoTable, NoTable)
  ELSE Loaded("ok",
              IF Exists(f, "athletes") THEN f.athletes
              ELSE Table(<<"id", "sport">>, <<>>),
              IF Exists(f, "events") THEN f.events
              ELSE Table(<<"sport", "event_id">>, <<>>),
              IF Exists(f, "medals_total") THEN AppNormalizeMedals(f.medals_total)
              ELSE Table(<<"noc", "gold", "silver", "bronze", "total">>, <<>>),
              IF Exists(f, "nocs") THEN AppNormalizeNocs(f.nocs)
              ELSE Table(<<"noc", "country">>, <<>>))

AppLoadData(f) ==
  IF FirstReadError(f, LoaderFiles) = "FileNotFoundError"
  THEN Loaded("ok",
              Table(<<"id", "sport">>, <<>>),
              Table(<<"sport", "event_id">>, <<>>),
              Table(<<"noc", "gold", "silver", "bronze", "total">>, <<>>),
              Table(<<"noc", "country">>, <<>>))
  ELSE IF FirstReadError(f, LoaderFiles) # "ok"
  THEN Loaded(FirstReadError(f, LoaderFiles),
              NoTable, NoTable, NoTable, NoTable)
  ELSE LET nocs == AppNormalizeNocs(f.nocs)
       IN  Loaded("ok", f.athletes, f.events,
                  AppMergeCountry(AppAddTotal(AppNormalizeMedals(f.medals_total)),
                                  nocs),
                  nocs)

\* ------------------------------------------------ Global Analysis loader
GlobalAddTotal(df) ==
  LET names == <<"gold", "silver", "bronze">>
      found == SelectSeq(names, LAMBDA m : get_medal_column(df, m) # None)
      medal_cols == [k \in DOMAIN found |-> get_medal_column(df, found[k])]
  IN  IF get_total_column(df) = None /\ medal_cols # <<>>
      THEN SetCol(df, "total", RowSums(df, medal_cols))
      ELSE df

GlobalMergeCountry(medals_total, nocs) ==
  LET country_col == NocsCountryColumn(nocs)
  IN  IF HasCol(medals_total, "noc") /\ HasCol(nocs, "noc")
         /\ country_col # None
      THEN Rename(MergeLeft(medals_total,
                            DropDuplicates(Project2(nocs, "noc", country_col),
                                           "noc"),
                            "noc", country_col),
                  country_col, "country")
      ELSE medals_total

\* a faulty enrichment: the merge and the rename without the fillna("Other")
MergeContinentNoFill(medals, src, cand) ==
  Rename(MergeLeft(medals, Project2(src, "noc", cand), "noc", cand),
         cand, "continent")

\* medals.merge(src[["noc", cand]], on="noc", how="left"), the column renamed
\* to continent and its missing values filled with "Other"
MergeContinent(medals, src, cand) ==
  FillNa(Rename(MergeLeft(medals, Project2(src, "noc", cand), "noc", cand),
                cand, "continent"),
         "continent", "Other")

ContinentCandidate(df) == FirstCandidate(df, <<"continent", "region">>)

\* add_continent_column raises KeyError when nocs has a continent/region
\* column and either table has no noc column
AddContinentRaises(medals_total, nocs) ==
  /\ ContinentCandidate(nocs) # None
  /\ ~(HasCol(nocs, "noc") /\ HasCol(medals_total, "noc"))

add_continent_column(medals_total, nocs, f) ==
  LET cand == ContinentCandidate(nocs)
      countries == normalize_noc_column(f.countries)
      continent_col == ContinentCandidate(countries)
  IN  IF cand # None
      THEN MergeContinent(medals_total, nocs, cand)
      ELSE IF /\ Exists(f, "countries")
              /\ HasCol(countries, "noc")
              /\ continent_col # None
              /\ HasCol(medals_total, "noc")
           THEN MergeContinent(medals_total, countries, continent_col)
           ELSE SetConst(medals_total, "continent", "Other")

\* create_placeholder_data(): the fixed events, medal totals and metadata of
\* the synthetic fallback (the athletes' codes are random draws, no step
\* modelled here reads them)
PlaceholderData ==
  Loaded("ok",
         Table(<<"id", "name", "noc">>, <<>>),
         Table(<<"sport", "event">>,
               << <<"Swimming", "E0">>, <<"Athletics", "E1">>,
                  <<"Gymnastics", "E2">>, <<"Cycling", "E3">> >>),
         Table(<<"noc", "Gold", "Silver", "Bronze", "Total", "Country_Name">>,
               << <<"USA", 40, 30, 20, 90, "United States">>,
                  <<"CHN", 30, 25, 20, 75, "China">>,
                  <<"JPN", 20, 15, 10, 45, "Japan">>,
                  <<"GER", 10, 8, 5, 23, "Germany">>,
                  <<"FRA", 8, 7, 5, 20, "France">>,
                  <<"AUS", 5, 5, 4, 14, "Australia">> >>),
         Table(<<"noc", "continent">>,
               << <<"USA", "North America">>, <<"CHN", "Asia">>,
                  <<"JPN", "Asia">>, <<"GER", "Europe">>,
                  <<"FRA", "Europe">>, <<"AUS", "Oceania">> >>))

\* the rows of the synthetic medalists table: 300 random draws in the code
PlaceholderRows == 1

\* the medalists table create_placeholder_data draws (np.random.choice),
\* over two of the six codes, two of the three medals and one of the six
\* sports
PlaceholderMedalists ==
  {Table(<<"noc", "medal", "Sport">>, rows) :
     rows \in [1..PlaceholderRows ->
                {<<n, m, "Swimming">> : n \in {"USA", "CHN"},
                                        m \in {"Gold", "Bronze"}}]}

\* create_placeholder_data(): every table it may return
create_placeholder_data ==
  {[PlaceholderData EXCEPT !.medalists = m] : m \in PlaceholderMedalists}

\* medallists.csv is read when it exists, after the country merge and
\* before the continent enrichment
GlobalLoadData(f) ==
  IF FirstReadError(f, LoaderFiles) = "FileNotFoundError" THEN PlaceholderData
  ELSE IF FirstReadError(f, LoaderFiles) # "ok"
  THEN Loaded(FirstReadError(f, LoaderFiles),
              NoTable, NoTable, NoTable, NoTable)
  ELSE IF Exists(f, "medallists") /\ ReadError(f, "medallists") # "ok"
  THEN Loaded(ReadError(f, "medallists"), NoTable, NoTable, NoTable, NoTable)
  ELSE LET nocs == normalize_noc_column(f.nocs)
           medals_total ==
             GlobalMergeCountry(
               GlobalAddTotal(normalize_noc_column(f.medals_total)), nocs)
           medalists == IF Exists(f, "medallists")
                        THEN normalize_noc_column(f.medallists) ELSE NoTable
       IN  IF AddContinentRaises(medals_total, nocs)
           THEN Loaded("KeyError", NoTable, NoTable, NoTable, NoTable)
           ELSE [Loaded("ok", f.athletes, f.events,
                        add_continent_column(medals_total, nocs, f), nocs)
                   EXCEPT !.medalists = medalists]

\* every result of one call of the Global Analysis loader: the fallback
\* draws its medalists at random
GlobalLoads(f) ==
  IF GlobalLoadData(f) = PlaceholderData THEN create_placeholder_data
  ELSE {GlobalLoadData(f)}

\* --------------------------------------------- Sports and Events loader
normalize_medal_columns(df) ==
  LET r1 == Rename(df, "Gold Medal", "Gold")
      r2 == Rename(r1, "Silver Medal", "Silver")
      r3 == Rename(r2, "Bronze Medal", "Bronze")
      r4 == Rename(r3, "Total", "total")
      medal_cols_present ==
        SelectSeq(<<"Gold", "Silver", "Bronze">>, LAMBDA c : HasCol(r4, c))
  IN  IF ~HasCol(r4, "total") /\ medal_cols_present # <<>>
      THEN SetCol(r4, "total", RowSums(r4, medal_cols_present))
      ELSE r4

\* what the Sports and Events loader returns; sport_medals_df comes from
\* medals.csv or medallists.csv, read only when they exist and under
\* "except Exception"; only the treemap reads it and the field is left
\* without columns
SportsLoaded(status, medals_total, schedule_df, venue_df) ==
  [status |-> status, medals_total |-> medals_total,
   schedule_df |-> schedule_df, venue_df |-> venue_df,
   sport_medals_df |-> NoTable]

\* venue_df: the five fixed venues (coordinates left out)
VenueData ==
  Table(<<"Venue", "Sport", "Capacity">>,
        << <<"Stade de France", "Athletics", 80000>>,
           <<"Arena Bercy", "Basketball", 15000>>,
           <<"Paris La Defense Arena", "Swimming", 17000>>,
           <<"Place de la Concorde", "Skateboarding", 30000>>,
           <<"Versailles", "Equestrian", 15000>> >>)

\* events["sport"].unique(): the values in order of first appearance, a
\* missing value among them
RECURSIVE OrderedUnique(_)
OrderedUnique(vals) ==
  IF vals = <<>> THEN <<>>
  ELSE LET front == OrderedUnique(SubSeq(vals, 1, Len(vals) - 1))
           last == vals[Len(vals)]
       IN  IF \E i \in DOMAIN front : front[i] = last THEN front
           ELSE Append(front, last)

\* sports_list = events["sport"].unique()[:15]
MaxScheduleSports == 15

SportsList(events) ==
  LET u == OrderedUnique([r \in DOMAIN events.rows |->
                            events.rows[r][ColIdx(events, "sport")]])
  IN  SubSeq(u, 1, IF Len(u) < MaxScheduleSports THEN Len(u)
                   ELSE MaxScheduleSports)

\* the exception building the schedule raises: no sport column (KeyError),
\* a missing sport value (NaN + " Final": TypeError), no event column
\* (KeyError)
ScheduleError(events) ==
  IF ~HasCol(events, "sport") THEN "KeyError"
  ELSE IF \E i \in DOMAIN SportsList(events) : SportsList(events)[i] = NaN
  THEN "TypeError"
  ELSE IF SportsList(events) # <<>> /\ ~HasCol(events, "event")
  THEN "KeyError"
  ELSE "ok"

\* schedule_df: one row per sport with the event of the sport's first row
\* (the random Start, Finish and Venue cells are left out: those columns
\* exist exactly when Sport and Event do); no column at all without sports
ScheduleData(events) ==
  LET sports == SportsList(events)
      FirstEvent(sport) ==
        SelectSeq(events.rows,
                  LAMBDA row : row[ColIdx(events, "sport")] = sport)
          [1][ColIdx(events, "event")]
  IN  IF sports = <<>> THEN NoTable
      ELSE Table(<<"Sport", "Event">>,
                 [i \in DOMAIN sports |-> <<sports[i], FirstEvent(sports[i])>>])

SportsLoadData(f) ==
  IF FirstReadError(f, <<"medals_total", "events">>) = "FileNotFoundError"
  THEN SportsLoaded("ok", NoTable, NoTable, NoTable)
  ELSE IF FirstReadError(f, <<"medals_total", "events">>) # "ok"
  THEN SportsLoaded(FirstReadError(f, <<"medals_total", "events">>),
                    NoTable, NoTable, NoTable)
  ELSE IF ScheduleError(f.events) # "ok"
  THEN SportsLoaded(ScheduleError(f.events), NoTable, NoTable, NoTable)
  ELSE SportsLoaded("ok", normalize_medal_columns(f.medals_total),
                    ScheduleData(f.events), VenueData)

\* the Sports and Events script after the loader: the schedule filters read
\* schedule_df["Sport"] and schedule_df["Venue"] (KeyError without them);
\* the treemap and the venue map test for missing or empty data first
SportsScriptStatus(L) ==
  IF L.status # "ok" THEN L.status
  ELSE IF ~HasCol(L.schedule_df, "Sport") THEN "KeyError"
  ELSE "ok"

\* --------------------------------------------------------- bonus loader
\* NOC_TO_CONTINENT.get(noc), NaN for a code the dictionary does not hold
NOC_TO_CONTINENT(noc) ==
  CASE noc \in {"USA", "CAN", "MEX"} -> "North America"
    [] noc \in {"BRA", "ARG", "COL"} -> "South America"
    [] noc \in {"GBR", "FRA", "GER", "ITA", "BEL"} -> "Europe"
    [] noc \in {"KOR", "JPN", "CHN", "IND", "QAT"} -> "Asia"
    [] noc \in {"AUS", "NZL"} -> "Oceania"
    [] noc \in {"RSA", "TUN", "KEN", "ETH"} -> "Africa"
    [] OTHER -> NaN

\* df["NOC"].map(NOC_TO_CONTINENT).fillna("Other")
BonusContinent(noc) ==
  IF NOC_TO_CONTINENT(noc) = NaN THEN "Other" ELSE NOC_TO_CONTINENT(noc)

\* the dates pd.to_datetime parses (ISO days, as the data files hold them)
ParsableDates == {"2000-07-26", "2004-07-27", "2024-07-27", "2024-07-28"}

\* pd.to_datetime(v, errors='coerce'): NaT for a missing or unparseable value
to_datetime(v) == IF v \in ParsableDates THEN v ELSE NaN

\* df[c] = pd.to_datetime(df[c], errors='coerce')
CoerceDates(df, c) ==
  SetCol(df, c,
         [r \in DOMAIN df.rows |-> to_datetime(df.rows[r][ColIdx(df, c)])])

\* df.dropna(subset=cols): the rows holding a value in every listed column
DropNa(df, cols) ==
  [df EXCEPT !.rows =
     SelectSeq(df.rows,
               LAMBDA row : \A k \in DOMAIN cols :
                              row[ColIdx(df, cols[k])] # NaN)]

\* what load_medallists_data returns (and st.cache_data keeps)
MedallistsLoaded(status, df) == [status |-> status, medallists |-> df]

MedallistsRenamed(df) ==
  Rename(Rename(Rename(Rename(Rename(Rename(df,
    "discipline", "Sport"), "country_code", "NOC"), "medal_type", "Medal"),
    "name", "Athlete_Name"), "medal_date", "Date"), "gender", "Gender")

MedallistsRequired ==
  <<"Date", "Medal", "NOC", "Sport", "Athlete_Name", "Gender">>

load_medallists_data(f) ==
  IF ReadError(f, "medallists") = "FileNotFoundError"
  THEN MedallistsLoaded("ok", NoTable)
  ELSE IF ReadError(f, "medallists") # "ok"
  THEN MedallistsLoaded(ReadError(f, "medallists"), NoTable)
  ELSE LET df == MedallistsRenamed(f.medallists)
       IN  IF \E k \in DOMAIN MedallistsRequired :
                ~HasCol(df, MedallistsRequired[k])
           THEN MedallistsLoaded("KeyError", NoTable)
           ELSE LET kept == DropNa(CoerceDates(df, "Date"), MedallistsRequired)
                IN  MedallistsLoaded("ok",
                      SetCol(kept, "Continent",
                             [r \in DOMAIN kept.rows |->
                                BonusContinent(
                                  kept.rows[r][ColIdx(kept, "NOC")])]))

load_medals_total_data(f) ==
  IF ReadError(f, "medals_total") = "FileNotFoundError"
  THEN Loaded("ok", NoTable, NoTable, NoTable, NoTable)
  ELSE IF ReadError(f, "medals_total") # "ok"
  THEN Loaded(ReadError(f, "medals_total"), NoTable, NoTable, NoTable, NoTable)
  ELSE LET df == Rename(f.medals_total, "country_code", "NOC")
           medal_cols == SelectSeq(df.cols, LAMBDA c : StrIn("Medal", c))
           withTotal ==
             IF HasCol(df, "Total") THEN df
             ELSE SetCol(df, "Total", RowSums(df, medal_cols))
       IN  IF ~HasCol(df, "Total") /\ Len(medal_cols) # 3
           THEN Loaded("ok", NoTable, NoTable, NoTable, NoTable)
           ELSE IF ~HasCol(df, "NOC")
           THEN Loaded("KeyError", NoTable, NoTable, NoTable, NoTable)
           ELSE Loaded("ok", NoTable, NoTable,
                       SetCol(withTotal, "Continent",
                              [r \in DOMAIN withTotal.rows |->
                                 BonusContinent(
                                   withTotal.rows[r][ColIdx(withTotal, "NOC")])]),
                       NoTable)

\* ------------------------------------------------------- aggregation
\* sorted(values): the set as an ascending sequence
Sorted(S) ==
  [i \in 1..Cardinality(S) |->
     CHOOSE v \in S : Cardinality({w \in S : Rank(w) < Rank(v)}) = i - 1]

\* df.groupby(k, as_index=False)[cols].sum(): one row per non-null key, keys
\* ascending, every listed column summed over the key's rows
GroupSum(df, k, cols) ==
  LET keys == Sorted(Unique(df, k))
      ki == ColIdx(df, k)
      Of(key) == SelectSeq(df.rows, LAMBDA row : row[ki] = key)
      Sum(key, c) ==
        SumSeq([r \in DOMAIN Of(key) |-> Of(key)[r][ColIdx(df, c)]])
  IN  Table(<<k>> \o cols,
            [i \in DOMAIN keys |->
               <<keys[i]>> \o [j \in DOMAIN cols |-> Sum(keys[i], cols[j])]])

\* df.sort_values(c, ascending=False): the default sort kind is not stable,
\* so every order of the rows with non-increasing c is a possible result
SortDescending(df, c) ==
  LET n == Len(df.rows)
      ci == ColIdx(df, c)
      perms == {p \in [1..n -> 1..n] :
                  /\ \A i, j \in 1..n : i # j => p[i] # p[j]
                  /\ \A i \in 1..(n - 1) :
                       df.rows[p[i]][ci] >= df.rows[p[i + 1]][ci]}
  IN  {[df EXCEPT !.rows = [i \in 1..n |-> df.rows[p[i]]]] : p \in perms}

\* a faulty head: one row more than asked for
HeadRowsOneMore(df, n) ==
  [df EXCEPT !.rows = SubSeq(df.rows, 1, IF n + 1 < Len(df.rows) THEN n + 1
                                         ELSE Len(df.rows))]

\* df.head(n)
HeadRows(df, n) ==
  [df EXCEPT !.rows = SubSeq(df.rows, 1, IF n < Len(df.rows) THEN n
                                         ELSE Len(df.rows))]

MedalOptions == {"Gold", "Silver", "Bronze"}

\* what one run of a page script computed
\* (filtered_medalists and hierarchy_counts exist on the Global Analysis
\* page only; labelled is the ranking with its Country column; medals_pivot,
\* filtered_df_1, bar_data_3 and comparison_pivot are the bonus page's tables)
View(status, filtered_medals, filtered_events, filtered_athletes, kpi, agg, top, cont_agg) ==
  [status |-> status, filtered_medals |-> filtered_medals,
   filtered_events |-> filtered_events,
   filtered_athletes |-> filtered_athletes, kpi |-> kpi,
   agg |-> agg, top |-> top, cont_agg |-> cont_agg,
   filtered_medalists |-> NoTable, hierarchy_counts |-> NoTable,
   labelled |-> NoTable, medals_pivot |-> NoTable,
   filtered_df_1 |-> NoTable, bar_data_3 |-> NoTable,
   comparison_pivot |-> NoTable]

Kpi(athletes, countries, sports, medals, events) ==
  [athletes |-> athletes, countries |-> countries, sports |-> sports,
   medals |-> medals, events |-> events]

NoKpi == Kpi(0, 0, 0, 0, 0)

NoView(status) ==
  View(status, NoTable, NoTable, NoTable, NoKpi, NoTable, NoTable, NoTable)

Selection(nocs, sports, medals) ==
  [nocs |-> nocs, sports |-> sports, medals |-> medals]

\* ------------------------------------------------------ Overview script
OverviewAvailableNocs(L) ==
  IF ~Empty(L.medals_total) /\ HasCol(L.medals_total, "noc")
  THEN Unique(L.medals_total, "noc") ELSE {}

OverviewSportCol(L) ==
  IF HasCol(L.events, "sport") THEN "sport"
  ELSE IF ~Empty(L.events) /\ Len(L.events.cols) > 1 THEN L.events.cols[2]
  ELSE "sport"

OverviewAvailableSports(L) ==
  IF ~Empty(L.events) /\ HasCol(L.events, OverviewSportCol(L))
  THEN Unique(L.events, OverviewSportCol(L)) ELSE {}

OverviewFilteredMedals(L, s) ==
  IF s.nocs # {} /\ ~Empty(L.medals_total)
  THEN IsIn(L.medals_total, "noc", s.nocs) ELSE L.medals_total

OverviewFilteredEvents(L, s) ==
  IF s.sports # {} /\ ~Empty(L.events)
  THEN IsIn(L.events, OverviewSportCol(L), s.sports) ELSE L.events

OverviewFilteredAthletes(L, s) ==
  IF HasCol(L.athletes, OverviewSportCol(L))
     /\ s.sports # {} /\ ~Empty(L.athletes)
  THEN IsIn(L.athletes, OverviewSportCol(L), s.sports) ELSE L.athletes

\* a faulty sum: the column is counted whether or not its type is selected
SelectedSumAlways(df, col, medal, s) ==
  IF col # None THEN ColSum(df, col) ELSE 0

\* filtered_medals[col].sum() if col and medal in selected_medal_types else 0
SelectedSum(df, col, medal, s) ==
  IF col # None /\ medal \in s.medals THEN ColSum(df, col) ELSE 0

OverviewKpi(L, s) ==
  LET fm == OverviewFilteredMedals(L, s)
      fe == OverviewFilteredEvents(L, s)
      fa == OverviewFilteredAthletes(L, s)
      sport_col == OverviewSportCol(L)
  IN  Kpi(IF HasCol(fa, "id") THEN NUnique(fa, "id") ELSE Len(fa.rows),
          IF HasCol(fm, "noc") THEN NUnique(fm, "noc") ELSE 0,
          IF HasCol(fe, sport_col) THEN NUnique(fe, sport_col) ELSE 0,
          SelectedSum(fm, get_medal_column(fm, "gold"), "Gold", s)
            + SelectedSum(fm, get_medal_column(fm, "silver"), "Silver", s)
            + SelectedSum(fm, get_medal_column(fm, "bronze"), "Bronze", s),
          IF HasCol(fe, "event_id") THEN NUnique(fe, "event_id")
          ELSE Len(fe.rows))

\* top10["total"]: the loaded total column when there is one, else the sum
\* of the resolved medal columns
OverviewWithTotal(fm) ==
  LET present == SelectSeq(<<"gold", "silver", "bronze">>,
                           LAMBDA m : get_medal_column(fm, m) # None)
      medal_cols == [k \in DOMAIN present |-> get_medal_column(fm, present[k])]
  IN  IF HasCol(fm, "total") THEN fm
      ELSE SetCol(fm, "total", RowSums(fm, medal_cols))

\* top10.groupby("noc", as_index=False)["total"].sum(), before the sort
OverviewRankingInput(L, s) ==
  LET fm == OverviewFilteredMedals(L, s)
  IN  IF ~Empty(fm) /\ HasCol(fm, "noc")
      THEN GroupSum(OverviewWithTotal(fm), "noc", <<"total">>)
      ELSE NoTable

\* a faulty label: the mapped name without fillna
MapLabelNoFill(fm, label, code) ==
  LET ni == ColIdx(fm, "noc")
      hits == {r \in DOMAIN fm.rows : fm.rows[r][ni] = code}
      first == CHOOSE r \in hits : \A q \in hits : r <= q
  IN  IF hits = {} THEN NaN ELSE fm.rows[first][ColIdx(fm, label)]

\* label_series[code]: the label of the first row of the code in the
\* filtered medal totals, the code itself where that is missing
MapLabel(fm, label, code) ==
  LET ni == ColIdx(fm, "noc")
      hits == {r \in DOMAIN fm.rows : fm.rows[r][ni] = code}
      first == CHOOSE r \in hits : \A q \in hits : r <= q
  IN  IF hits = {} \/ fm.rows[first][ColIdx(fm, label)] = NaN THEN code
      ELSE fm.rows[first][ColIdx(fm, label)]

\* top["Country"] = top[noc].map(label_series).fillna(top[noc]), or the code
\* when the filtered medal totals have no label column
WithCountry(top, fm, label) ==
  IF top = NoTable THEN NoTable
  ELSE SetCol(top, "Country",
              [r \in DOMAIN top.rows |->
                 IF label = None THEN top.rows[r][ColIdx(top, "noc")]
                 ELSE MapLabel(fm, label, top.rows[r][ColIdx(top, "noc")])])

OverviewLabelCol(fm) == IF HasCol(fm, "country") THEN "country" ELSE None

\* the possible results of one run of the Overview script
OverviewScript(L, s) ==
  LET agg == OverviewRankingInput(L, s)
      tops == IF agg = NoTable THEN {NoTable}
              ELSE {HeadRows(t, TopNOverview) : t \in SortDescending(agg, "total")}
  IN  {[View("ok", OverviewFilteredMedals(L, s), OverviewFilteredEvents(L, s),
             OverviewFilteredAthletes(L, s), OverviewKpi(L, s),
             agg, top, NoTable)
          EXCEPT !.labelled =
                   WithCountry(top, OverviewFilteredMedals(L, s),
                               OverviewLabelCol(OverviewFilteredMedals(L, s)))] :
        top \in tops}

\* ----------------------------------------------- Global Analysis script
GlobalSportCol(L) ==
  IF HasCol(L.events, "sport") THEN "sport"
  ELSE IF ~Empty(L.events) THEN L.events.cols[1] ELSE "Sport"

\* the sidebar raises KeyError when the medal totals have no noc column or
\* the events have no sport column to list
GlobalSidebarRaises(L) ==
  \/ ~HasCol(L.medals_total, "noc")
  \/ ~HasCol(L.events, GlobalSportCol(L))

GlobalAvailableNocs(L) == Unique(L.medals_total, "noc")

GlobalAvailableSports(L) == Unique(L.events, GlobalSportCol(L))

\* a faulty filter: the unselected medal columns are zeroed in the filtered
\* table itself, not in a copy
GlobalFilteredMedalsInPlace(L, s) ==
  LET fm == IF s.nocs # {} /\ ~Empty(L.medals_total)
            THEN IsIn(L.medals_total, "noc", s.nocs) ELSE L.medals_total
  IN  IF ~Empty(fm) /\ get_medal_column(fm, "gold") # None
         /\ get_medal_column(fm, "silver") # None
         /\ get_medal_column(fm, "bronze") # None
      THEN IF "Gold" \notin s.medals
           THEN SetConst(fm, get_medal_column(fm, "gold"), 0) ELSE fm
      ELSE fm

GlobalFilteredMedals(L, s) ==
  IF s.nocs # {} /\ ~Empty(L.medals_total)
  THEN IsIn(L.medals_total, "noc", s.nocs) ELSE L.medals_total

\* a faulty zeroing: an unselected Silver column keeps its counts
ZeroUnselectedKeepsSilver(df, gold_col, silver_col, bronze_col, s) ==
  LET z1 == IF "Gold" \notin s.medals THEN SetConst(df, gold_col, 0) ELSE df
  IN  IF "Bronze" \notin s.medals THEN SetConst(z1, bronze_col, 0) ELSE z1

\* top[col] = 0 for every medal type that is not selected
ZeroUnselected(df, gold_col, silver_col, bronze_col, s) ==
  LET z1 == IF "Gold" \notin s.medals THEN SetConst(df, gold_col, 0) ELSE df
      z2 == IF "Silver" \notin s.medals THEN SetConst(z1, silver_col, 0) ELSE z1
  IN  IF "Bronze" \notin s.medals THEN SetConst(z2, bronze_col, 0) ELSE z2

\* the ranking is drawn only from a non-empty table with all three columns
GlobalHasMedals(fm) ==
  /\ ~Empty(fm)
  /\ get_medal_column(fm, "gold") # None
  /\ get_medal_column(fm, "silver") # None
  /\ get_medal_column(fm, "bronze") # None

\* a faulty aggregate: the countries whose total became 0 are filtered out
GlobalRankingInputNonZero(fm, s) ==
  LET gold_col == get_medal_column(fm, "gold")
      silver_col == get_medal_column(fm, "silver")
      bronze_col == get_medal_column(fm, "bronze")
      medal_cols == <<gold_col, silver_col, bronze_col>>
      agg == GroupSum(ZeroUnselected(fm, gold_col, silver_col, bronze_col, s),
                      "noc", medal_cols)
      full == SetCol(agg, "total", RowSums(agg, medal_cols))
  IN  IF GlobalHasMedals(fm)
      THEN [full EXCEPT !.rows = SelectSeq(@, LAMBDA row : row[5] > 0)]
      ELSE NoTable

\* agg before the sort: per-country sums of the zeroed columns and their total
GlobalRankingInput(fm, s) ==
  LET gold_col == get_medal_column(fm, "gold")
      silver_col == get_medal_column(fm, "silver")
      bronze_col == get_medal_column(fm, "bronze")
      medal_cols == <<gold_col, silver_col, bronze_col>>
      agg == GroupSum(ZeroUnselected(fm, gold_col, silver_col, bronze_col, s),
                      "noc", medal_cols)
  IN  IF GlobalHasMedals(fm)
      THEN SetCol(agg, "total", RowSums(agg, medal_cols))
      ELSE NoTable

\* cont_agg: per-continent sums of the zeroed columns
GlobalContinentAgg(fm, s) ==
  LET gold_col == get_medal_column(fm, "gold")
      silver_col == get_medal_column(fm, "silver")
      bronze_col == get_medal_column(fm, "bronze")
  IN  IF GlobalHasMedals(fm)
      THEN GroupSum(ZeroUnselected(fm, gold_col, silver_col, bronze_col, s),
                    "continent", <<gold_col, silver_col, bronze_col>>)
      ELSE NoTable

GlobalKpi(fm) ==
  LET total_col == get_total_column(fm)
  IN  Kpi(0, NUnique(fm, "noc"), 0,
          IF total_col # None THEN ColSum(fm, total_col) ELSE 0, 0)

\* the possible results of one run of the Global Analysis script
\* the first column of the medalists whose lower-cased name is sport,
\* discipline or event (None when there is none)
MedalistsSportCol(df) ==
  LET hits == {i \in DOMAIN df.cols :
                 Lower(df.cols[i]) \in {"sport", "discipline", "event"}}
  IN  IF hits = {} THEN None
      ELSE df.cols[CHOOSE i \in hits : \A j \in hits : i <= j]

\* v.split()[0] of a medal value
FirstWord(v) ==
  CASE v = "Gold Medal" -> "Gold"
    [] v = "Silver Medal" -> "Silver"
    [] v = "Bronze Medal" -> "Bronze"
    [] OTHER -> v

\* the medalists under the country and the sport selection
MedalistsBySelection(L, s) ==
  LET m0 == L.medalists
      m1 == IF s.nocs # {} /\ HasCol(m0, "noc") THEN IsIn(m0, "noc", s.nocs)
            ELSE m0
  IN  IF s.sports # {} /\ MedalistsSportCol(m1) # None
      THEN IsIn(m1, MedalistsSportCol(m1), s.sports) ELSE m1

\* building medal_value_map calls split on every medal value: a missing
\* value (a float) has no split
MedalistsRaise(L, s) ==
  LET m2 == MedalistsBySelection(L, s)
      col == get_medal_column(m2, "medal")
  IN  col # None /\ \E r \in DOMAIN m2.rows : m2.rows[r][ColIdx(m2, col)] = NaN

\* filtered_medalists: the rows whose medal value contains, whatever the
\* case, the first word of a medal value that is a selected medal type; the
\* pattern of no such word is empty and found in every value
GlobalFilteredMedalists(L, s) ==
  LET m2 == MedalistsBySelection(L, s)
      col == get_medal_column(m2, "medal")
      words == {FirstWord(m2.rows[r][ColIdx(m2, col)]) : r \in DOMAIN m2.rows}
      valid_medal_values == words \cap s.medals
  IN  IF col = None \/ valid_medal_values = {} THEN m2
      ELSE [m2 EXCEPT !.rows =
              SelectSeq(m2.rows,
                        LAMBDA row : FirstWord(row[ColIdx(m2, col)])
                                       \in valid_medal_values)]

\* hierarchy_df.merge(join_df, on="noc", how="left"), join_df being the
\* code, continent and country name of the medal totals, one row per code
JoinContinent(L, h0) ==
  MergeLeft(h0, DropDuplicates(Project2(L.medals_total, "noc", "continent"), "noc"), "noc", "continent")

JoinLabel(L, h1, label) ==
  IF label = None THEN h1
  ELSE MergeLeft(h1, DropDuplicates(Project2(L.medals_total, "noc", label), "noc"), "noc", label)

\* hierarchy_df before the grouping
HierarchyJoin(L, fmed) ==
  JoinLabel(L, JoinContinent(L, normalize_noc_column(fmed)),
            get_country_column(L.medals_total))

\* the merge on noc and the read of the continent column raise KeyError when
\* the medalists have no code column or a continent column of their own
HierarchyRaises(L, fmed) ==
  /\ ~Empty(fmed)
  /\ \/ ~HasCol(normalize_noc_column(fmed), "noc")
     \/ ~HasCol(HierarchyJoin(L, fmed), "continent")

\* the three grouping keys of one row of hierarchy_df: continent with
\* fillna("Other"), country_label (the country name, the code where it is
\* missing), sport_level (the sport column, "All sports" without one)
HierarchyKeys(h, label, sport_col_med, row) ==
  << IF row[ColIdx(h, "continent")] = NaN THEN "Other"
     ELSE row[ColIdx(h, "continent")],
     IF label # None /\ HasCol(h, label)
     THEN (IF row[ColIdx(h, label)] = NaN THEN row[ColIdx(h, "noc")]
           ELSE row[ColIdx(h, label)])
     ELSE row[ColIdx(h, "noc")],
     IF sport_col_med # None THEN row[ColIdx(h, sport_col_med)]
     ELSE "All sports" >>

\* the keys of every row of hierarchy_df, in row order
KeyRows(h, label, sport_col_med) ==
  [r \in DOMAIN h.rows |-> HierarchyKeys(h, label, sport_col_med, h.rows[r])]

\* the keys in ascending order, the first key first
KeysBefore(a, b) ==
  \/ Rank(a[1]) < Rank(b[1])
  \/ a[1] = b[1] /\ Rank(a[2]) < Rank(b[2])
  \/ a[1] = b[1] /\ a[2] = b[2] /\ Rank(a[3]) < Rank(b[3])

\* the groups of a groupby: a row with a missing key is in no group
GroupKeys(keyed) ==
  {keyed[r] : r \in {q \in DOMAIN keyed : \A k \in 1..3 : keyed[q][k] # NaN}}

AscendingKeys(keys) ==
  [i \in 1..Cardinality(keys) |->
     CHOOSE v \in keys : Cardinality({w \in keys : KeysBefore(w, v)}) = i - 1]

\* .size(): one row per group with the number of its rows
GroupSizes(keyed, asc) ==
  [i \in DOMAIN asc |->
     Append(asc[i], Cardinality({r \in DOMAIN keyed : keyed[r] = asc[i]}))]

SizeTable(keyed) ==
  Table(<<"continent", "country_label", "sport_level", "MedalCount">>,
        GroupSizes(keyed, AscendingKeys(GroupKeys(keyed))))

\* hierarchy_counts: groupby(continent, country_label, sport_level).size()
\* as MedalCount
hierarchy_counts(L, fmed) ==
  IF Empty(fmed) THEN NoTable
  ELSE SizeTable(KeyRows(HierarchyJoin(L, fmed),
                         get_country_column(L.medals_total),
                         MedalistsSportCol(fmed)))

GlobalScript(L, s) ==
  LET fm == GlobalFilteredMedals(L, s)
      agg == GlobalRankingInput(fm, s)
      tops == IF agg = NoTable THEN {NoTable}
              ELSE {HeadRows(t, TopNGlobal) : t \in SortDescending(agg, "total")}
      fmed == GlobalFilteredMedalists(L, s)
  IN  IF GlobalSidebarRaises(L) THEN {NoView("KeyError")}
      ELSE IF MedalistsRaise(L, s) THEN {NoView("AttributeError")}
      ELSE IF ~HasCol(fm, "continent") \/ HierarchyRaises(L, fmed)
      THEN {NoView("KeyError")}
      ELSE {[View("ok", fm, NoTable, NoTable, GlobalKpi(fm), agg, top,
                  GlobalContinentAgg(fm, s))
               EXCEPT !.filtered_medalists = fmed,
                      !.hierarchy_counts = hierarchy_counts(L, fmed),
                      !.labelled = WithCountry(top, fm, get_country_column(fm))] :
              top \in tops}

\* ------------------------------------------- Athlete Performance script
\* ast.literal_eval of a disciplines cell, [] for what does not evaluate
safe_literal_eval(x) ==
  CASE x = "['Swimming']" -> <<"Swimming">>
    [] x = "['Athletics']" -> <<"Athletics">>
    [] x = "['Athletics', 'Swimming']" -> <<"Athletics", "Swimming">>
    [] OTHER -> <<>>

\* (pd.to_datetime("2024-07-26") - birth_date).dt.days // 365, NaN for NaT
AgeOnOpeningDay(d) ==
  CASE d = "2000-07-26" -> 8766 \div 365
    [] d = "2004-07-27" -> 7304 \div 365
    [] d = "2024-07-27" -> (0 - 1) \div 365
    [] d = "2024-07-28" -> (0 - 2) \div 365
    [] OTHER -> NaN

\* athletes after the age computation: birth_date parsed, age appended
AthletesWithAge(athletes) ==
  IF ~HasCol(athletes, "birth_date") THEN athletes
  ELSE LET parsed == CoerceDates(athletes, "birth_date")
       IN  SetCol(parsed, "age",
                  [r \in DOMAIN parsed.rows |->
                     AgeOnOpeningDay(
                       parsed.rows[r][ColIdx(parsed, "birth_date")])])

\* the options of the sport selectbox next to "All"
AthleteDisciplines(athletes) ==
  IF ~HasCol(athletes, "birth_date") \/ ~HasCol(athletes, "disciplines")
  THEN {}
  ELSE LET di == ColIdx(athletes, "disciplines")
       IN  UNION {{safe_literal_eval(athletes.rows[r][di])[k] :
                     k \in DOMAIN safe_literal_eval(athletes.rows[r][di])} :
                  r \in {q \in DOMAIN athletes.rows :
                           athletes.rows[q][di] # NaN}}

\* the options of the country selectbox next to "All"
AthleteCountries(athletes) ==
  IF HasCol(athletes, "country") /\ HasCol(athletes, "gender")
  THEN Unique(athletes, "country") ELSE {}

\* sport_athletes: the rows the age distribution is drawn from; an empty
\* sports selection stands for "All"
sport_athletes(athletes, s) ==
  LET a == AthletesWithAge(athletes)
  IN  IF ~HasCol(athletes, "birth_date") \/ ~HasCol(athletes, "disciplines")
      THEN NoTable
      ELSE IF s.sports = {} THEN a
      ELSE LET di == ColIdx(a, "disciplines")
           IN  [a EXCEPT !.rows =
                  SelectSeq(a.rows,
                    LAMBDA row :
                      /\ row[di] # NaN
                      /\ \E k \in DOMAIN safe_literal_eval(row[di]) :
                           safe_literal_eval(row[di])[k] \in s.sports)]

\* df[c].value_counts().reset_index() with columns [c, 'count']: one row per
\* value, counts non-increasing, equal counts in any order
ValueCounts(df, c) ==
  LET ci == ColIdx(df, c)
      vals == SelectSeq([r \in DOMAIN df.rows |-> df.rows[r][ci]],
                        LAMBDA v : v # NaN)
      keys == OrderedUnique(vals)
      counts ==
        Table(<<c, "count">>,
              [i \in DOMAIN keys |->
                 <<keys[i], Len(SelectSeq(vals, LAMBDA v : v = keys[i]))>>])
  IN  SortDescending(counts, "count")

\* gender_df: an empty country selection stands for "All"
GenderCounts(athletes, s) ==
  LET a == AthletesWithAge(athletes)
  IN  IF ~HasCol(a, "country") \/ ~HasCol(a, "gender") THEN {NoTable}
      ELSE IF s.nocs = {} THEN ValueCounts(a, "gender")
      ELSE ValueCounts(IsIn(a, "country", s.nocs), "gender")

\* medals.groupby(['code','name'])['medal_type'].count().reset_index()
\* renamed to total_medals: one row per athlete code, codes ascending (a
\* code has one name in the data), the medal types present counted
AthleteTotals(medals) ==
  LET ci == ColIdx(medals, "code")
      ni == ColIdx(medals, "name")
      mi == ColIdx(medals, "medal_type")
      codes == {medals.rows[r][ci] : r \in DOMAIN medals.rows}
      Of(code) == SelectSeq(medals.rows, LAMBDA row : row[ci] = code)
      asc == [i \in 1..Cardinality(codes) |->
                CHOOSE v \in codes :
                  Cardinality({w \in codes : w < v}) = i - 1]
  IN  Table(<<"code", "name", "total_medals">>,
            [i \in DOMAIN asc |->
               <<asc[i], Of(asc[i])[1][ni],
                 Len(SelectSeq(Of(asc[i]), LAMBDA row : row[mi] # NaN))>>])

\* top_10_athletes
TopNAthletes == 10

TopAthletes(medals) ==
  IF Empty(medals) THEN {NoTable}
  ELSE {HeadRows(t, TopNAthletes) :
          t \in SortDescending(AthleteTotals(medals), "total_medals")}

\* the exception the script stops with, "ok" when it runs to its end: the
\* module-level reads are not guarded, the profile card indexes the first
\* athlete's name, height and weight, the ranking the medals' columns
AthleteScriptStatus(f) ==
  IF FirstReadError(f, <<"athletes", "medals">>) # "ok"
  THEN FirstReadError(f, <<"athletes", "medals">>)
  ELSE IF ~HasCol(f.athletes, "name") THEN "KeyError"
  ELSE IF Unique(f.athletes, "name") = {} THEN "IndexError"
  ELSE IF ~HasCol(f.athletes, "height") \/ ~HasCol(f.athletes, "weight")
  THEN "KeyError"
  ELSE IF ~Empty(f.medals)
          /\ \E c \in {"code", "name", "medal_type"} : ~HasCol(f.medals, c)
  THEN "KeyError"
  ELSE "ok"

\* one run of the Athlete Performance script: the files are read anew
AthleteScript(f, s) ==
  IF AthleteScriptStatus(f) # "ok" THEN {NoView(AthleteScriptStatus(f))}
  ELSE {View("ok", NoTable, NoTable, sport_athletes(f.athletes, s), NoKpi,
             g, top, NoTable) :
          g \in GenderCounts(f.athletes, s), top \in TopAthletes(f.medals)}

\* ------------------------------------------------------------ state
\* the loader results st.cache_data keeps, one per page script
Pages ==
  {"overview", "global", "sports", "bonus", "medallists", "data_loader"}

\* the data directory; medallists.csv and medals.csv are absent unless a
\* scenario puts them there
Files(athletes, events, medals_total, nocs, countries, exists) ==
  [athletes |-> athletes, events |-> events, medals_total |-> medals_total,
   nocs |-> nocs, countries |-> countries, medallists |-> NoTable,
   medals |-> NoTable, exists |-> exists]

\* a faulty memoization: the loader body runs on every call
CachedOrFresh(c, fresh) == fresh

\* load_data() under @st.cache_data: the cached value when there is one
CachedOr(c, fresh) == IF c.status = "ok" THEN c ELSE fresh

\* st.cache_data keeps what the loader returned, nothing when it raised
Keep(c, L) == IF L.status = "ok" THEN L ELSE c

\* a widget of a page that was just opened holds its default: every option
OverviewDefault(L) ==
  Selection(OverviewAvailableNocs(L), OverviewAvailableSports(L), MedalOptions)

GlobalDefault(L) ==
  IF L.status # "ok" \/ GlobalSidebarRaises(L)
  THEN Selection({}, {}, MedalOptions)
  ELSE Selection(GlobalAvailableNocs(L), GlobalAvailableSports(L), MedalOptions)

GlobalRun(L, s) ==
  IF L.status # "ok" THEN {NoView(L.status)} ELSE GlobalScript(L, s)

\* one run of the Overview script: nothing is drawn when load_data raised
OverviewRun(L, s) ==
  IF L.status # "ok" THEN {NoView(L.status)} ELSE OverviewScript(L, s)

\* ------------------------------------------------------------ navigation
\* a faulty nav_to: every request leads to the Overview content
nav_to_overview(page_name) == "overview"

\* nav_to(page_name): st.session_state.active_page = page_name
nav_to(page_name) == page_name

\* if 'active_page' not in st.session_state: active_page = 'overview'
InitSessionState(active) == IF active = None THEN "overview" ELSE active

\* the page names of the links of the Overview navbar, in order
AppLinks == <<"overview", "global", "athletes", "sports">>

\* get_nav_link(page_name, label): <<page_name, class>>
get_nav_link(active, page_name) ==
  <<page_name, IF active = page_name THEN "active" ELSE "">>

\* the links of the navbar the Overview script draws
AppNavbar(active) ==
  [i \in DOMAIN AppLinks |-> get_nav_link(active, AppLinks[i])]

\* the page ids of the links of the shared navbar, in order
NavbarPages ==
  <<"overview", "Global_Analysis", "Athlete_Performance", "Sports_and_Events", "bonus">>

\* a faulty navbar: the first link is active on every page
render_navbar_first(current_page) ==
  [i \in DOMAIN NavbarPages |->
     <<NavbarPages[i], IF i = 1 THEN "active" ELSE "">>]

\* render_navbar(current_page): the links <<page_id, class>>
render_navbar(current_page) ==
  [i \in DOMAIN NavbarPages |->
     <<NavbarPages[i], IF current_page = NavbarPages[i] THEN "active" ELSE "">>]

\* the dispatch on active_page: the dashboard with its ranking is drawn for
\* 'overview' only, the filters and KPIs are computed before the dispatch
OverviewScriptOn(L, s, active) ==
  IF active = "overview" THEN OverviewScript(L, s)
  ELSE {View("ok", OverviewFilteredMedals(L, s), OverviewFilteredEvents(L, s),
             OverviewFilteredAthletes(L, s), OverviewKpi(L, s),
             NoTable, NoTable, NoTable)}

OverviewRunOn(L, s, active) ==
  IF L.status # "ok" THEN {NoView(L.status)} ELSE OverviewScriptOn(L, s, active)

\* a faulty session: the widget values are not kept with the session
SessionWithoutWidgets(p, s, v, active, links, msg) ==
  [page |-> p, sel |-> Selection({}, {}, MedalOptions), view |-> v,
   active_page |-> active, navbar |-> links, message |-> msg]

\* what a session holds: the page shown, the widget values, what the last
\* run computed, the session state and the navbar drawn
Session(p, s, v, active, links, msg) ==
  [page |-> p, sel |-> s, view |-> v, active_page |-> active,
   navbar |-> links, message |-> msg]

NewSession ==
  Session("none", Selection({}, {}, MedalOptions), NoView("none"), None, <<>>, None)

\* the user opens the Overview page: the script runs with default widgets
OpenOverview ==
  LET L == CachedOr(cache.overview, AppLoadData(files))
  IN  /\ page # "overview"
      /\ page' = "overview"
      /\ cache' = [cache EXCEPT !.overview = Keep(@, L)]
      /\ sel' = OverviewDefault(L)
      /\ active_page' = InitSessionState(active_page)
      /\ view' \in OverviewRunOn(L, OverviewDefault(L), InitSessionState(active_page))
      /\ navbar' = (IF L.status = "ok" THEN AppNavbar(InitSessionState(active_page))
                    ELSE <<>>)
      /\ message' = None
      /\ UNCHANGED <<files, other>>

\* the values a multiselect can take after one user action on it: one
\* option added, one option removed, or the widget cleared
OneChange(cur, options) ==
  ({cur \cup {o} : o \in options} \cup {cur \ {o} : o \in cur} \cup {{}})
    \ {cur}

\* the selections after one user action on one sidebar widget
WidgetChanges(s, nocs, sports) ==
  {Selection(n, s.sports, s.medals) : n \in OneChange(s.nocs, nocs)}
    \cup {Selection(s.nocs, sp, s.medals) : sp \in OneChange(s.sports, sports)}
    \cup {Selection(s.nocs, s.sports, m) : m \in OneChange(s.medals, MedalOptions)}

\* the user changes a sidebar widget of the Overview page: the script reruns
FilterOverview ==
  LET L == cache.overview
  IN  /\ page = "overview"
      /\ L.status = "ok"
      /\ \E s \in WidgetChanges(sel, OverviewAvailableNocs(L),
                                OverviewAvailableSports(L)) :
           /\ sel' = s
           /\ view' \in OverviewScriptOn(L, s, active_page)
      /\ navbar' = AppNavbar(active_page)
      /\ UNCHANGED <<files, cache, page, active_page, message, other>>

\* the user opens the Global Analysis page
OpenGlobal ==
  \E fresh \in GlobalLoads(files) :
    LET L == CachedOr(cache.global, fresh)
    IN  /\ page # "global"
        /\ page' = "global"
        /\ cache' = [cache EXCEPT !.global = Keep(@, L)]
        /\ sel' = GlobalDefault(L)
        /\ view' \in GlobalRun(L, GlobalDefault(L))
        /\ navbar' = render_navbar("Global_Analysis")
        /\ message' = None
        /\ UNCHANGED <<files, active_page, other>>

\* the user changes a sidebar widget of the Global Analysis page
FilterGlobal ==
  LET L == cache.global
  IN  /\ page = "global"
      /\ L.status = "ok"
      /\ ~GlobalSidebarRaises(L)
      /\ \E s \in WidgetChanges(sel, GlobalAvailableNocs(L),
                                GlobalAvailableSports(L)) :
           /\ sel' = s
           /\ view' \in GlobalScript(L, s)
      /\ navbar' = render_navbar("Global_Analysis")
      /\ UNCHANGED <<files, cache, page, active_page, message, other>>

\* the user opens the Sports and Events page: its loader runs
OpenSports ==
  LET L == CachedOr(cache.sports, SportsLoadData(files))
  IN  /\ page # "sports"
      /\ page' = "sports"
      /\ cache' = [cache EXCEPT !.sports = Keep(@, L)]
      /\ sel' = Selection({}, {}, MedalOptions)
      /\ view' = NoView(SportsScriptStatus(L))
      /\ navbar' = <<>>
      /\ message' = None
      /\ UNCHANGED <<files, active_page, other>>

\* the user opens the bonus dashboard: its two loaders run, the medallists
\* loader first; the second one is not reached when the first one raised
\* ---------------------------------------------------- bonus dashboard
MedalColumns == <<"Gold Medal", "Silver Medal", "Bronze Medal">>

\* the index tuples of a pivot come out in ascending order
KeyLess(a, b) ==
  \E k \in DOMAIN a : /\ \A j \in 1..(k - 1) : a[j] = b[j]
                      /\ Rank(a[k]) < Rank(b[k])

\* df.groupby(index + ['Medal']).size().reset_index(name='Count')
\*   .pivot_table(index=index, columns='Medal', values='Count', fill_value=0)
\*   .reset_index(): one row per index tuple, one column per medal value
\* present in df (and only those), absent combinations filled with 0
PivotCount(df, index) ==
  LET medals == Sorted(Unique(df, "Medal"))
      KeyOf(row) == [k \in DOMAIN index |-> row[ColIdx(df, index[k])]]
      keys == {KeyOf(df.rows[r]) : r \in DOMAIN df.rows}
      ordered ==
        [i \in 1..Cardinality(keys) |->
           CHOOSE a \in keys :
             Cardinality({b \in keys : KeyLess(b, a)}) = i - 1]
      Count(key, m) ==
        Cardinality({r \in DOMAIN df.rows :
                       /\ KeyOf(df.rows[r]) = key
                       /\ df.rows[r][ColIdx(df, "Medal")] = m})
  IN  IF Empty(df) THEN NoTable
      ELSE Table(index \o medals,
                 [i \in DOMAIN ordered |->
                    ordered[i] \o
                    [j \in DOMAIN medals |-> Count(ordered[i], medals[j])]])

\* p[['Gold Medal', 'Silver Medal', 'Bronze Medal']] raises KeyError when
\* one of the three columns is not in p
TotalRaises(p) == \E k \in DOMAIN MedalColumns : ~HasCol(p, MedalColumns[k])

\* p['Total'] = p[['Gold Medal', 'Silver Medal', 'Bronze Medal']].sum(axis=1)
WithTotal(p) == SetCol(p, "Total", RowSums(p, MedalColumns))

\* df[df[c] == v]
RowsEqual(df, c, v) ==
  [df EXCEPT !.rows = SelectSeq(df.rows, LAMBDA row : row[ColIdx(df, c)] = v)]

\* the widgets of tabs 1 and 3 that select rows
BonusSelection(ch1_continent, ch1_gender, ch3_continent_breakdown) ==
  [nocs |-> {}, sports |-> {}, medals |-> MedalOptions,
   ch1_continent |-> ch1_continent, ch1_gender |-> ch1_gender,
   ch3_continent_breakdown |-> ch3_continent_breakdown]

BonusDefault == BonusSelection("All", "All", None)

\* the continents the two selectboxes offer
BonusContinents(T) == Unique(T, "Continent")

\* tab 1: the pivot of the whole table gets its Continent, then the
\* selected continent and gender choose rows
BonusFilteredDf1(pivot, s) ==
  LET withCont ==
        SetCol(pivot, "Continent",
               [r \in DOMAIN pivot.rows |->
                  BonusContinent(pivot.rows[r][ColIdx(pivot, "NOC")])])
      byCont == IF s.ch1_continent # "All"
                THEN RowsEqual(withCont, "Continent", s.ch1_continent)
                ELSE withCont
  IN  IF s.ch1_gender # "All"
      THEN RowsEqual(byCont, "Gender", s.ch1_gender)
      ELSE GroupSum(byCont, "NOC", MedalColumns \o <<"Total">>)

\* one run of pages/bonus.py below its loaders
BonusScript(M, T, s) ==
  LET medals_pivot == PivotCount(M, <<"NOC", "Gender">>)
      breakdown == PivotCount(RowsEqual(M, "Continent",
                                        s.ch3_continent_breakdown), <<"NOC">>)
  IN  IF Empty(M) \/ Empty(T) THEN NoView("ok")
      ELSE IF TotalRaises(medals_pivot) THEN NoView("KeyError")
      ELSE IF s.ch3_continent_breakdown # None /\ TotalRaises(breakdown)
      THEN NoView("KeyError")
      ELSE [NoView("ok") EXCEPT
              !.medals_pivot = WithTotal(medals_pivot),
              !.filtered_df_1 = BonusFilteredDf1(WithTotal(medals_pivot), s),
              !.bar_data_3 = IF s.ch3_continent_breakdown = None THEN NoTable
                             ELSE WithTotal(breakdown),
              !.comparison_pivot =
                 WithTotal(PivotCount(M, <<"NOC", "Sport">>))]

OpenBonus ==
  LET M == CachedOr(cache.medallists, load_medallists_data(files))
      L == CachedOr(cache.bonus, load_medals_total_data(files))
  IN  /\ page # "bonus"
      /\ page' = "bonus"
      /\ cache' = [cache EXCEPT !.medallists = Keep(@, M),
                                !.bonus = IF M.status = "ok" THEN Keep(@, L)
                                          ELSE @]
      /\ sel' = BonusDefault
      /\ view' = IF M.status = "ok" /\ L.status = "ok"
                 THEN BonusScript(M.medallists, L.medals_total, BonusDefault)
                 ELSE NoView(IF M.status = "ok" THEN L.status ELSE M.status)
      /\ navbar' = render_navbar("la28_dashboard")
      /\ message' = None
      /\ UNCHANGED <<files, active_page, other>>

\* a widget of the bonus page changes and the script runs again
FilterBonus ==
  /\ page = "bonus"
  /\ cache.medallists.status = "ok" /\ cache.bonus.status = "ok"
  /\ ~Empty(cache.medallists.medallists)
  /\ ~Empty(cache.bonus.medals_total)
  /\ \E c1 \in {"All"} \cup BonusContinents(cache.bonus.medals_total),
        g \in {"All", "Male", "Female"},
        c3 \in {None} \cup BonusContinents(cache.bonus.medals_total) :
        /\ BonusSelection(c1, g, c3) # sel
        /\ sel' = BonusSelection(c1, g, c3)
        /\ view' = BonusScript(cache.medallists.medallists,
                               cache.bonus.medals_total, sel')
  /\ navbar' = render_navbar("la28_dashboard")
  /\ UNCHANGED <<files, cache, page, active_page, message, other>>

\* the user opens the Athlete Performance page: every selectbox holds its
\* first option ("All" for sport and country)
OpenAthlete ==
  /\ page # "athlete"
  /\ page' = "athlete"
  /\ sel' = Selection({}, {}, MedalOptions)
  /\ view' \in AthleteScript(files, Selection({}, {}, MedalOptions))
  /\ navbar' = <<>>
  /\ message' = None
  /\ UNCHANGED <<files, cache, active_page, other>>

\* the user picks another sport or country on the Athlete Performance page:
\* the script reruns
FilterAthlete ==
  /\ page = "athlete"
  /\ view.status = "ok"
  /\ \E s \in {Selection(sel.nocs, sp, MedalOptions) :
                  sp \in {{}} \cup {{d} : d \in AthleteDisciplines(files.athletes)}}
               \cup {Selection(n, sel.sports, MedalOptions) :
                  n \in {{}} \cup {{c} : c \in AthleteCountries(files.athletes)}} :
       /\ s # sel
       /\ sel' = s
       /\ view' \in AthleteScript(files, s)
  /\ UNCHANGED <<files, cache, page, active_page, navbar, message, other>>

\* a loader of utils/data_loader.py under @st.cache_data: the table it
\* returned before, else the table it reads now (NoTable: read_csv raised)
CachedRead(kept, f, name) ==
  IF kept # NoTable THEN kept
  ELSE IF ReadError(f, name) = "ok" THEN f[name]
  ELSE NoTable

load_athletes(c, f) == CachedRead(c.athletes, f, "athletes")

load_medals_total(c, f) == CachedRead(c.medals_total, f, "medals_total")

load_events(c, f) == CachedRead(c.events, f, "events")

\* the module body of utils/data_loader.py: the three loaders are called in
\* turn, and the first read_csv that raises ends the run
DataLoaderImport(c, f) ==
  LET a == load_athletes(c, f)
      m == IF a = NoTable THEN c.medals_total ELSE load_medals_total(c, f)
      e == IF a = NoTable \/ m = NoTable THEN c.events ELSE load_events(c, f)
      status == IF a = NoTable THEN ReadError(f, "athletes")
                ELSE IF m = NoTable THEN ReadError(f, "medals_total")
                ELSE IF e = NoTable THEN ReadError(f, "events")
                ELSE "ok"
  IN  Loaded(status, a, e, m, NoTable)

\* utils/data_loader.py runs
ImportDataLoader ==
  /\ page # "data_loader"
  /\ page' = "data_loader"
  /\ cache' = [cache EXCEPT !.data_loader = DataLoaderImport(@, files)]
  /\ sel' = Selection({}, {}, MedalOptions)
  /\ view' = NoView(DataLoaderImport(cache.data_loader, files).status)
  /\ navbar' = <<>>
  /\ message' = None
  /\ UNCHANGED <<files, active_page, other>>

\* the four files load_data reads, one athlete, one event, two countries
AllExist == {"athletes", "events", "medals_total", "nocs"}

BaseAthletes ==
  Table(<<"id", "sport">>, << <<"A1", "Swimming">> >>)

BaseEvents ==
  Table(<<"sport", "event", "event_id">>, << <<"Swimming", "100m", "E1">> >>)

BaseNocs ==
  Table(<<"code", "country">>,
        << <<"USA", "United States">>, <<"CHN", "China">> >>)

\* the states of the data directory between two script runs
FileStates ==
  LET full == Files(BaseAthletes, BaseEvents,
                    Table(<<"country_code", "Gold", "Silver", "Bronze">>,
                          << <<"USA", 1, 0, 1>> >>),
                    BaseNocs, NoTable,
                    {"athletes", "events", "medals_total", "nocs"})
  IN  { full,
        [full EXCEPT !.medals_total =
           Table(<<"country_code", "Gold", "Silver", "Bronze">>,
                 << <<"USA", 1, 1, 1>> >>)],
        [full EXCEPT !.exists = @ \ {"medals_total"}],
        [full EXCEPT !.medals_total = NoTable] }

\* somebody modifies, deletes or creates files of the data directory
ChangeFiles ==
  /\ files' \in FileStates \ {files}
  /\ UNCHANGED <<cache, page, sel, view, active_page, navbar, message, other>>

\* the server process is restarted (or the cache cleared): nothing is kept
Restart ==
  /\ page # "none"
  /\ cache' = [p \in Pages |-> NotLoaded]
  /\ page' = "none"
  /\ sel' = Selection({}, {}, MedalOptions)
  /\ view' = NoView("none")
  /\ active_page' = None
  /\ navbar' = <<>>
  /\ message' = None
  /\ other' = NewSession
  /\ UNCHANGED files

\* the user clicks a link (or the logo) of the Overview navbar: its script
\* posts the message that asks for active_page = page
ClickNav ==
  /\ page = "overview"
  /\ navbar # <<>>
  /\ message = None
  /\ \E i \in DOMAIN navbar : message' = navbar[i][1]
  /\ UNCHANGED <<files, cache, page, sel, view, active_page, navbar, other>>

\* the message arrives: active_page is set to the page asked for and the
\* Overview script reruns with the widgets as they are
DeliverNav ==
  /\ page = "overview"
  /\ message # None
  /\ cache.overview.status = "ok"
  /\ active_page' = nav_to(message)
  /\ message' = None
  /\ view' \in OverviewScriptOn(cache.overview, sel, nav_to(message))
  /\ navbar' = AppNavbar(nav_to(message))
  /\ UNCHANGED <<files, cache, page, sel, other>>

\* the server turns to the other browser session, between two interactions
\* of the session it leaves (a click and the arrival of its message count as
\* one): each session has its own widgets, session state and script run, the
\* files and the cache are shared
SwitchSession ==
  /\ message = None
  /\ page' = other.page
  /\ sel' = other.sel
  /\ view' = other.view
  /\ active_page' = other.active_page
  /\ navbar' = other.navbar
  /\ message' = other.message
  /\ other' = Session(page, sel, view, active_page, navbar, message)
  /\ UNCHANGED <<files, cache>>

Next ==
  \/ OpenOverview
  \/ FilterOverview
  \/ OpenGlobal
  \/ FilterGlobal
  \/ OpenSports
  \/ OpenBonus
  \/ FilterBonus
  \/ OpenAthlete
  \/ FilterAthlete
  \/ ImportDataLoader
  \/ ChangeFiles
  \/ Restart
  \/ ClickNav
  \/ DeliverNav
  \/ SwitchSession

\* ------------------------------------------------------ the CSV files
MedalValues == 0..MaxMedal

MedalTriples == [1..3 -> MedalValues]

\* the state before any page was opened, over the given files
Start(f) ==
  /\ files = f
  /\ cache = [p \in Pages |-> NotLoaded]
  /\ page = "none"
  /\ sel = Selection({}, {}, MedalOptions)
  /\ view = NoView("none")
  /\ active_page = None
  /\ navbar = <<>>
  /\ message = None
  /\ other = NewSession

\* the medal-totals table of the specification's example scenario
ExampleMedals ==
  Table(<<"country_code", "Gold", "Silver", "Bronze">>,
        << <<"USA", 10, 5, 3>>, <<"CHN", 8, 10, 6>> >>)

BaseFiles ==
  {Files(BaseAthletes, BaseEvents, m, BaseNocs, NoTable, AllExist) :
     m \in {ExampleMedals}}

Init == \E f \in BaseFiles : Start(f)

Spec == Init /\ [][Next]_vars

\* ---------------------------------------------- files of varied layout
\* the names a medal-totals file gives its country-code column (none: <<>>)
CodeAliases ==
  { <<"noc">>, <<"NOC">>, <<"country_code">>, <<"Country_Code">>,
    <<"code">>, <<"Code">>, <<>> }

MedalNamings ==
  { <<"Gold", "Silver", "Bronze">>, <<"gold", "silver", "bronze">>,
    <<"Gold Medal", "Silver Medal", "Bronze Medal">>,
    <<"Gold", "Silver Medal", "Bronze">> }

TotalNamings == { <<>>, <<"total">>, <<"Total">> }

\* one-row medal-totals files: every layout, every triple of non-zero
\* counts, the stored total (when the file has one) right or off by one
LayoutMedals ==
  {Table(a \o m \o t,
         << (IF a = <<>> THEN <<>> ELSE <<"USA">>) \o g
              \o (IF t = <<>> THEN <<>> ELSE <<g[1] + g[2] + g[3] + d>>) >>) :
     a \in CodeAliases, m \in MedalNamings,
     t \in TotalNamings, g \in [1..3 -> 1..MaxMedal], d \in {0, 1}}

NocsLayouts ==
  {Table(<<c, "country">>, << <<"USA", "United States">> >>) :
     c \in {"noc", "NOC", "code", "Code", "country_code"}}

LayoutFiles ==
  {Files(BaseAthletes, BaseEvents, m, BaseNocs, NoTable, AllExist) :
     m \in LayoutMedals}
  \cup
  {Files(BaseAthletes, BaseEvents, ExampleMedals, n, NoTable, AllExist) :
     n \in NocsLayouts}

\* the user only opens pages: every loader runs once, in any order
NextOpen ==
  \/ OpenOverview
  \/ OpenGlobal
  \/ OpenSports
  \/ OpenBonus

InitLayout == \E f \in LayoutFiles : Start(f)

SpecLayout == InitLayout /\ [][NextOpen]_vars

\* ------------------------------------------------ files to filter
RankNocs ==
  Table(<<"code", "country", "continent">>,
        << <<"USA", "United States", "North America">>,
           <<"CHN", "China", "Asia">> >>)

NoEvents == Table(<<"sport", "event_id">>, <<>>)

\* the medal counts of one row of a medal-totals file to rank
RankTriples ==
  { <<0, 0, 0>>, <<1, 0, 0>>, <<0, MaxMedal, 1>>, <<MaxMedal, 0, 0>> }

\* three-row medal totals: three countries, a repeated country, a row
\* without country code
RankMedals ==
  {Table(<<"country_code", "Gold", "Silver", "Bronze">>,
         [r \in 1..3 |-> <<codes[r]>> \o t[r]]) :
     codes \in { <<"USA", "CHN", "FRA">>, <<"USA", "CHN", "USA">>,
                 <<"USA", NaN, "CHN">> },
     t \in [1..3 -> RankTriples]}

\* events and athletes whose sports differ: a sport without athletes, an
\* athlete of a sport without events, rows without sport
SportEvents ==
  { Table(<<"sport", "event_id">>,
          << <<"Swimming", "E1">>, <<"Athletics", "E2">> >>),
    Table(<<"sport", "event_id">>,
          << <<"Swimming", "E1">>, <<NaN, "E2">> >>) }

SportAthletes ==
  { Table(<<"id", "sport">>, << <<"A1", "Swimming">>, <<"A2", "Cycling">> >>),
    Table(<<"id", "sport">>, << <<"A1", "Swimming">>, <<"A2", NaN>> >>),
    Table(<<"id", "sport">>, << <<"A1", "Swimming">>, <<"A1", "Athletics">> >>) }

\* two-row medal totals, with and without a row that has no country code
TwoRowMedals ==
  {Table(<<"country_code", "Gold", "Silver", "Bronze">>,
         [r \in 1..2 |-> <<codes[r]>> \o t[r]]) :
     codes \in { <<"USA", "CHN">>, <<"USA", NaN>> },
     t \in [1..2 -> RankTriples]}

FilterFiles ==
  {Files(BaseAthletes, BaseEvents, m, RankNocs, NoTable, AllExist) :
     m \in TwoRowMedals}
  \cup
  {Files(a, e, ExampleMedals, RankNocs, NoTable, AllExist) :
     a \in SportAthletes, e \in SportEvents}

\* the user stays on the Overview and Global Analysis pages
NextFilter ==
  \/ OpenOverview
  \/ FilterOverview
  \/ OpenGlobal
  \/ FilterGlobal

InitFilter == \E f \in FilterFiles : Start(f)

SpecFilter == InitFilter /\ [][NextFilter]_vars

RankFiles ==
  {Files(BaseAthletes, NoEvents, m, RankNocs, NoTable, AllExist) :
     m \in RankMedals}

\* the user stays on the Global Analysis page
NextGlobal ==
  \/ OpenGlobal
  \/ FilterGlobal

InitRank == \E f \in RankFiles : Start(f)

SpecGlobal == InitRank /\ [][NextGlobal]_vars

\* ------------------------------------------ metadata of varied content
\* medal totals in the layout of the published data set
PublishedLayout ==
  <<"country_code", "Gold Medal", "Silver Medal", "Bronze Medal", "Total">>

JoinMedals ==
  {Table(PublishedLayout, [r \in DOMAIN codes |-> <<codes[r], 1, 1, 1, 3>>]) :
     codes \in { <<"USA">>, <<"USA", "CHN">>, <<"USA", "USA">>,
                 <<"ESP", "USA">>, <<NaN, "CHN">> }}
  \cup {Table(<<"Gold Medal", "Silver Medal", "Bronze Medal", "Total">>,
              << <<1, 1, 1, 3>> >>)}

\* the cells a metadata row can hold under a column, by row position: the
\* second row may repeat the code of the first with another spelling
MetaCells(col, r) ==
  IF Lower(col) \in NocAliases
  THEN (IF r = 1 THEN {"USA", "CHN"} ELSE {"USA", "CHN", NaN})
  ELSE IF col \in {"country", "country_name"}
  THEN (IF r = 1 THEN {"United States", NaN} ELSE {"US of A"})
  ELSE (IF r = 1 THEN {"North America", NaN} ELSE {"Asia", NaN})

\* every table of the given columns with at most two rows
MetaTables(cols) ==
  LET Row(r) == {row \in [DOMAIN cols ->
                            UNION {MetaCells(cols[i], r) : i \in DOMAIN cols}] :
                   \A i \in DOMAIN cols : row[i] \in MetaCells(cols[i], r)}
  IN  {Table(cols, <<>>)}
      \cup {Table(cols, <<a>>) : a \in Row(1)}
      \cup {Table(cols, <<a, b>>) : a \in Row(1), b \in Row(2)}

NocsColumns ==
  { <<"code", "country">>, <<"code", "country", "continent">>,
    <<"noc", "region">>, <<"country_code", "country_name", "continent">>,
    <<"country", "continent">> }

CountriesTables ==
  { Table(<<"code", "continent">>, << <<"USA", "North America">> >>),
    Table(<<"Code", "region">>,
          << <<"USA", "North America">>, <<"USA", NaN>> >>),
    Table(<<"name", "continent">>, << <<"United States", "North America">> >>) }

JoinFiles ==
  {Files(BaseAthletes, BaseEvents, m, n, NoTable, AllExist) :
     m \in JoinMedals, n \in UNION {MetaTables(c) : c \in NocsColumns}}
  \cup
  {Files(BaseAthletes, BaseEvents, m, n, c, AllExist \cup {"countries"}) :
     m \in JoinMedals, n \in MetaTables(<<"code", "country">>),
     c \in CountriesTables}
  \cup
  {Files(BaseAthletes, BaseEvents, ExampleMedals, BaseNocs, NoTable,
         AllExist \ {"nocs"})}

InitJoin == \E f \in JoinFiles : Start(f)

SpecJoin == InitJoin /\ [][NextOpen]_vars

\* ------------------------------------------------- normalization claims
\* the file's country-code column, by any of the known aliases
AliasColumn(df) ==
  LET hits == {i \in DOMAIN df.cols : Lower(df.cols[i]) \in NocAliases}
  IN  IF hits = {} THEN None ELSE df.cols[CHOOSE i \in hits : TRUE]

\* the loaded table names the file's country-code column noc and keeps the
\* column's cells
NormalizedAs(loaded, file) ==
  AliasColumn(file) # None =>
    /\ HasCol(loaded, "noc")
    /\ \A r \in DOMAIN file.rows :
         r \in DOMAIN loaded.rows
         /\ loaded.rows[r][ColIdx(loaded, "noc")]
              = file.rows[r][ColIdx(file, AliasColumn(file))]

\* C1: whichever known alias (noc, country_code, code, any letter case) names
\* the country-code column of the medal-totals file or of the NOC metadata
\* file, every loader that normalizes it returns the table with that column
\* named noc and its cells unchanged, so files that differ only in the alias
\* load to the same table (Overview/shared loader and normalize_noc_column of
\* the Global Analysis loader).
C1_AliasIndependent ==
  /\ cache.overview.status = "ok" =>
       /\ NormalizedAs(cache.overview.medals_total, files.medals_total)
       /\ NormalizedAs(cache.overview.nocs, files.nocs)
  /\ cache.global.status = "ok" =>
       /\ NormalizedAs(cache.global.medals_total, files.medals_total)
       /\ NormalizedAs(cache.global.nocs, files.nocs)

\* gold, silver and bronze all resolve to a column of df
MedalsResolve(df) ==
  \A m \in {"gold", "silver", "bronze"} : get_medal_column(df, m) # None

\* gold + silver + bronze of row r, each resolved column counted once
MedalSum(df, r) ==
  df.rows[r][ColIdx(df, get_medal_column(df, "gold"))]
    + df.rows[r][ColIdx(df, get_medal_column(df, "silver"))]
    + df.rows[r][ColIdx(df, get_medal_column(df, "bronze"))]

\* df has a total column and it holds gold + silver + bronze in every row
TotalIsMedalSum(df) ==
  /\ get_total_column(df) # None
  /\ \A r \in DOMAIN df.rows :
       df.rows[r][ColIdx(df, get_total_column(df))] = MedalSum(df, r)

\* the file has no total column and all three medal columns resolve
NeedsDerivedTotal(file) ==
  get_total_column(file) = None /\ MedalsResolve(file)

\* C2: when the medal-totals file has no total column and its gold, silver and
\* bronze columns all resolve, each loader (Overview, Global Analysis, Sports
\* and Events) returns the table with a total column that holds
\* gold + silver + bronze in every row, each column counted exactly once.
C2_DerivedTotal ==
  \A p \in {"overview", "global", "sports"} :
    (cache[p].status = "ok" /\ NeedsDerivedTotal(files.medals_total)) =>
      TotalIsMedalSum(cache[p].medals_total)

\* C3: every loaded medal-totals table (Overview, Global Analysis) has a noc
\* column and a total column that holds gold + silver + bronze in every row,
\* also when the file carries its own total column or names its medal
\* columns with an alias such as Gold Medal.
C3_TotalInvariant ==
  \A p \in {"overview", "global"} :
    (cache[p].status = "ok" /\ MedalsResolve(files.medals_total)) =>
      /\ HasCol(cache[p].medals_total, "noc")
      /\ TotalIsMedalSum(cache[p].medals_total)

\* ---------------------------------------------------- enrichment claims
\* out has one row per row of the file, in order, each beginning with the
\* cells of the file's row
OneRowPerRow(out, file) ==
  /\ Len(out.rows) = Len(file.rows)
  /\ \A r \in DOMAIN file.rows :
       SubSeq(out.rows[r], 1, Len(file.cols)) = file.rows[r]

\* C6: continent enrichment never changes the number of rows: the medal
\* totals loaded by the Global Analysis loader have exactly one row per row
\* of the medal-totals file, also when the metadata repeats a country code.
C6_ContinentRowCount ==
  cache.global.status = "ok" =>
    OneRowPerRow(cache.global.medals_total, files.medals_total)

\* the table add_continent_column takes the continent from, with the name of
\* its continent column: the NOC metadata when it has a continent or region
\* column, else countries.csv when it has a code and a continent or region
\* column (NoTable: no continent source at all)
ContinentSource(f) ==
  LET nocs == normalize_noc_column(f.nocs)
      countries == normalize_noc_column(f.countries)
  IN  IF ContinentCandidate(nocs) # None THEN nocs
      ELSE IF /\ Exists(f, "countries") /\ HasCol(countries, "noc")
              /\ ContinentCandidate(countries) # None
              /\ AliasColumn(f.medals_total) # None
           THEN countries
           ELSE NoTable

\* the continent values the metadata gives a country code: the value of each
\* metadata row of that code, Other for a null value or when no row matches
ContinentsOf(f, noc) ==
  LET src == ContinentSource(f)
      vals == IF src = NoTable THEN {}
              ELSE {src.rows[r][ColIdx(src, ContinentCandidate(src))] :
                      r \in {q \in DOMAIN src.rows :
                               src.rows[q][ColIdx(src, "noc")] = noc}}
  IN  IF vals = {} THEN {"Other"}
      ELSE {IF v = NaN THEN "Other" ELSE v : v \in vals}

\* C7: every row of the medal totals after continent enrichment has a
\* non-null continent: the metadata's continent (or region) of the row's
\* country code when there is one, and Other otherwise (no match, a null
\* value, or no continent source).  Global Analysis loader (when it read the
\* files and so ran add_continent_column) and bonus loader.
C7_ContinentNeverNull ==
  /\ (cache.global.status = "ok" /\ LoaderFilesExist(files)) =>
       LET mt == cache.global.medals_total
       IN  /\ HasCol(mt, "continent")
           /\ \A r \in DOMAIN mt.rows :
                LET c == mt.rows[r][ColIdx(mt, "continent")]
                IN  /\ c # NaN
                    /\ IF HasCol(mt, "noc")
                       THEN c \in ContinentsOf(files,
                                               mt.rows[r][ColIdx(mt, "noc")])
                       ELSE c = "Other"
  /\ (cache.bonus.status = "ok" /\ ~Empty(cache.bonus.medals_total)) =>
       LET mt == cache.bonus.medals_total
       IN  /\ HasCol(mt, "Continent")
           /\ \A r \in DOMAIN mt.rows :
                LET c == mt.rows[r][ColIdx(mt, "Continent")]
                    noc == mt.rows[r][ColIdx(mt, "NOC")]
                IN  /\ c # NaN
                    /\ c = IF NOC_TO_CONTINENT(noc) = NaN THEN "Other"
                           ELSE NOC_TO_CONTINENT(noc)

\* C7 witness: a loaded Global Analysis table with a row that took its
\* continent from the metadata and a row that fell back to Other, and a
\* bonus table with a row that fell back to Other
C7_Witness ==
  /\ cache.global.status = "ok"
  /\ LoaderFilesExist(files)
  /\ ContinentSource(files) # NoTable
  /\ LET mt == cache.global.medals_total
     IN  /\ \E r \in DOMAIN mt.rows :
              mt.rows[r][ColIdx(mt, "continent")] = "Other"
         /\ \E r \in DOMAIN mt.rows :
              mt.rows[r][ColIdx(mt, "continent")] = "North America"
  /\ cache.bonus.status = "ok"
  /\ LET bt == cache.bonus.medals_total
     IN  \E r \in DOMAIN bt.rows :
           /\ bt.rows[r][ColIdx(bt, "NOC")] = "ESP"
           /\ bt.rows[r][ColIdx(bt, "Continent")] = "Other"

\* the country name the metadata's first row of a code carries (NaN: none)
FirstCountryName(f, noc) ==
  LET nocs == f.nocs
      k == AliasColumn(nocs)
      hits == {r \in DOMAIN nocs.rows : nocs.rows[r][ColIdx(nocs, k)] = noc}
  IN  IF hits = {} THEN NaN
      ELSE nocs.rows[CHOOSE r \in hits : \A q \in hits : r <= q]
                    [ColIdx(nocs, NocsCountryColumn(nocs))]

\* the loaded table has one row per row of the file, each carrying the
\* country name of the first metadata row of its code
JoinedOnce(loaded, f) ==
  /\ OneRowPerRow(loaded, f.medals_total)
  /\ HasCol(loaded, "country") =>
       \A r \in DOMAIN loaded.rows :
         loaded.rows[r][ColIdx(loaded, "country")]
           = FirstCountryName(f, loaded.rows[r][ColIdx(loaded, "noc")])

\* the continent enrichment that follows the country join in the Global
\* Analysis loader merges nothing (it only adds the constant column)
NoContinentMerge(f) == ContinentSource(f) = NoTable

\* C8: the country-name join keeps one row per medal-totals row and uses the
\* first metadata row of a repeated code, in the Overview/shared loader and
\* in the Global Analysis loader.
C8_CountryJoinOnce ==
  /\ cache.overview.status = "ok" =>
       JoinedOnce(cache.overview.medals_total, files)
  /\ (cache.global.status = "ok" /\ NoContinentMerge(files)) =>
       JoinedOnce(cache.global.medals_total, files)

\* ------------------------------------------------------- filter claims
\* the position of a medal type's column in an aggregate of medal columns
MedalPos(m) ==
  CASE m = "Gold" -> 2 [] m = "Silver" -> 3 [] m = "Bronze" -> 4

\* the combined total of a row of an aggregate
Combined(df, row) ==
  IF HasCol(df, "total") THEN row[ColIdx(df, "total")]
  ELSE row[2] + row[3] + row[4]

\* every row of the aggregate before is a row of the aggregate after with
\* the other two medal sums unchanged, the sum of m at 0 and the combined
\* total lowered by the previous sum of m
Lowered(before, after, m) ==
  \A r \in DOMAIN before.rows :
    \E q \in DOMAIN after.rows :
      LET b == before.rows[r]
          a == after.rows[q]
      IN  /\ a[1] = b[1]
          /\ \A o \in MedalOptions \ {m} : a[MedalPos(o)] = b[MedalPos(o)]
          /\ a[MedalPos(m)] = 0
          /\ Combined(after, a) = Combined(before, b) - b[MedalPos(m)]

SumFor(fm, k, key, col) ==
  LET of == SelectSeq(fm.rows, LAMBDA row : row[ColIdx(fm, k)] = key)
  IN  SumSeq([r \in DOMAIN of |-> of[r][ColIdx(fm, col)]])

SelectedTotal(fm, code, medals) ==
  (IF "Gold" \in medals
   THEN SumFor(fm, "noc", code, get_medal_column(fm, "gold")) ELSE 0)
  + (IF "Silver" \in medals
     THEN SumFor(fm, "noc", code, get_medal_column(fm, "silver")) ELSE 0)
  + (IF "Bronze" \in medals
     THEN SumFor(fm, "noc", code, get_medal_column(fm, "bronze")) ELSE 0)

\* C5: on the Overview page and on the Global Analysis page every row of the
\* top-N ranking carries the country's total over the currently selected
\* medal types only.
C5_RankedBySelected ==
  (/\ page \in {"overview", "global"}
   /\ view.status = "ok"
   /\ GlobalHasMedals(view.filtered_medals))
  => \A r \in DOMAIN view.top.rows :
       Combined(view.top, view.top.rows[r])
         = SelectedTotal(view.filtered_medals, view.top.rows[r][1], sel.medals)

\* some possible run of the script gives the filtered tables and the
\* metrics of view v
SameData(v, views) ==
  \E w \in views :
    /\ w.filtered_medals = v.filtered_medals
    /\ w.filtered_events = v.filtered_events
    /\ w.filtered_athletes = v.filtered_athletes
    /\ w.kpi = v.kpi

\* C9: with an empty country selection, or an empty sport selection, the
\* page shows the same filtered tables and metrics as with every available
\* option of that filter selected (Overview and Global Analysis pages).
C9_EmptyIsAll ==
  /\ (page = "overview" /\ view.status = "ok") =>
       LET L == cache.overview
       IN  /\ sel.nocs = {} =>
                SameData(view, OverviewScript(L,
                  [sel EXCEPT !.nocs = OverviewAvailableNocs(L)]))
           /\ sel.sports = {} =>
                SameData(view, OverviewScript(L,
                  [sel EXCEPT !.sports = OverviewAvailableSports(L)]))
  /\ (page = "global" /\ view.status = "ok") =>
       LET L == cache.global
       IN  /\ sel.nocs = {} =>
                SameData(view, GlobalScript(L,
                  [sel EXCEPT !.nocs = GlobalAvailableNocs(L)]))
           /\ sel.sports = {} =>
                SameData(view, GlobalScript(L,
                  [sel EXCEPT !.sports = GlobalAvailableSports(L)]))

\* the country codes of an aggregate
AggCodes(df) == {df.rows[r][1] : r \in DOMAIN df.rows}

\* C10: on the Global Analysis page the ranking aggregate before the top-N
\* cut has the same set of country codes under every medal-type selection:
\* the codes of the filtered medal totals, also for a country whose total
\* over the selected types is 0.
C10_SameCodes ==
  (page = "global" /\ view.status = "ok") =>
    /\ \A m \in SUBSET MedalOptions :
         AggCodes(GlobalRankingInput(view.filtered_medals,
                                     Selection(sel.nocs, sel.sports, m)))
           = AggCodes(view.agg)
    /\ GlobalHasMedals(view.filtered_medals) =>
         AggCodes(view.agg) = Unique(view.filtered_medals, "noc")

\* C10 witness: a medal type is deselected and the aggregate keeps a country
\* whose total became 0 although the filtered table has medals for it
C10_Witness ==
  /\ page = "global"
  /\ view.status = "ok"
  /\ sel.medals # MedalOptions
  /\ \E r \in DOMAIN view.agg.rows :
       /\ view.agg.rows[r][5] = 0
       /\ SelectedTotal(view.filtered_medals, view.agg.rows[r][1],
                        MedalOptions) > 0

\* ------------------------------------------------------- metric claims
\* the distinct values of column c over df when df has the column, else the
\* number of rows of df
DistinctOrRows(df, c) ==
  IF HasCol(df, c) THEN NUnique(df, c) ELSE Len(df.rows)

\* C11: each distinct-count KPI of the Overview page (athletes, countries,
\* sports, events) is the number of distinct values of its identifier column
\* over the filtered table when the table has that column, and the number of
\* rows of the filtered table when it has not.
C11_DistinctCounts ==
  (page = "overview" /\ view.status = "ok") =>
    /\ view.kpi.athletes = DistinctOrRows(view.filtered_athletes, "id")
    /\ view.kpi.countries = DistinctOrRows(view.filtered_medals, "noc")
    /\ view.kpi.sports
         = DistinctOrRows(view.filtered_events, OverviewSportCol(cache.overview))
    /\ view.kpi.events = DistinctOrRows(view.filtered_events, "event_id")

\* medal-totals files for the medal KPI: a stored total that is right or off
\* by one, a file without silver column, a file with Medal-suffixed columns
KpiLayouts ==
  { <<"Gold", "Silver", "Bronze", "total">>, <<"Gold", "Bronze">>,
    <<"Gold Medal", "Silver Medal", "Bronze Medal", "Total">> }

KpiMedals ==
  UNION {
    {Table(<<"country_code">> \o l,
           << <<"USA">> \o [j \in DOMAIN l |->
                              IF j = 4 THEN g[1] + g[2] + g[3] + d ELSE g[j]],
              <<"CHN">> \o [j \in DOMAIN l |->
                              IF j = 4 THEN MaxMedal + 2 ELSE
                              IF j = 1 THEN MaxMedal ELSE 1] >>) :
       g \in [1..3 -> {1, MaxMedal}], d \in {0, 1}} : l \in KpiLayouts}

KpiFiles ==
  {Files(BaseAthletes, BaseEvents, m, BaseNocs, NoTable, AllExist) :
     m \in KpiMedals}

\* the user stays on the Overview page
NextOverview ==
  \/ OpenOverview
  \/ FilterOverview

InitKpi == \E f \in KpiFiles : Start(f)

SpecKpi == InitKpi /\ [][NextOverview]_vars

\* the count of medal type m in a row of df: the cell of the column the type
\* resolves to, 0 when the type is not selected or resolves to no column
MedalCell(df, row, m, medals) ==
  IF m \in medals /\ get_medal_column(df, Lower(m)) # None
  THEN row[ColIdx(df, get_medal_column(df, Lower(m)))] ELSE 0

\* the rows of the loaded medal totals the country selection keeps
SelectedRows(df, nocs) ==
  IF nocs = {} THEN df.rows
  ELSE SelectSeq(df.rows, LAMBDA row : row[ColIdx(df, "noc")] \in nocs)

\* C12: in every filter state the Overview total-medals KPI is the sum, over
\* the rows of the loaded medal totals that the country selection keeps, of
\* the gold, silver and bronze cells whose type is selected; a deselected
\* type and a type without column count 0, and a stored total is not read.
C12_MedalKpi ==
  (page = "overview" /\ view.status = "ok") =>
    LET df == cache.overview.medals_total
        rows == SelectedRows(df, sel.nocs)
    IN  view.kpi.medals
          = SumSeq([r \in DOMAIN rows |->
                      MedalCell(df, rows[r], "Gold", sel.medals)
                        + MedalCell(df, rows[r], "Silver", sel.medals)
                        + MedalCell(df, rows[r], "Bronze", sel.medals)])

\* C12 witness: one country and two medal types are selected, the KPI counts
\* medals, and the stored totals of the filtered rows add up to another value
C12_Witness ==
  /\ page = "overview"
  /\ view.status = "ok"
  /\ sel.nocs = {"USA"}
  /\ sel.medals = {"Gold", "Bronze"}
  /\ view.kpi.medals > 0
  /\ HasCol(view.filtered_medals, "total")
  /\ Len(view.filtered_medals.rows) = 1
  /\ ColSum(view.filtered_medals, "total") # view.kpi.medals

\* ------------------------------------------------ missing-file claims
\* data directories in which each of the four files load_data reads is
\* there, is missing, or is there without content
MissingFiles ==
  {Files(IF "athletes" \in e THEN NoTable ELSE BaseAthletes,
         IF "events" \in e THEN NoTable ELSE BaseEvents,
         IF "medals_total" \in e THEN NoTable ELSE ExampleMedals,
         IF "nocs" \in e THEN NoTable ELSE BaseNocs,
         NoTable, AllExist \ m) :
     m \in SUBSET AllExist, e \in SUBSET AllExist}

\* the user opens the pages and uses the Overview sidebar
NextMissing ==
  \/ OpenOverview
  \/ FilterOverview
  \/ OpenGlobal
  \/ OpenSports
  \/ OpenBonus
  \/ ImportDataLoader

InitMissing == \E f \in MissingFiles : Start(f)

SpecMissing == InitMissing /\ [][NextMissing]_vars

\* C13: when a file a loader reads is missing or unreadable the loader
\* returns instead of raising: the Overview/shared loader gives empty tables
\* with the canonical columns and the Overview page shows no filter option,
\* KPIs of 0 and no ranking row; the loaders of utils/data_loader.py return
\* too.
C13_MissingIsEmpty ==
  /\ (page = "overview" /\ FirstReadError(files, LoaderFiles) # "ok") =>
       /\ view.status = "ok"
       /\ cache.overview.medals_total
            = Table(<<"noc", "gold", "silver", "bronze", "total">>, <<>>)
       /\ Empty(cache.overview.athletes)
       /\ Empty(cache.overview.events)
       /\ OverviewAvailableNocs(cache.overview) = {}
       /\ OverviewAvailableSports(cache.overview) = {}
       /\ view.kpi = NoKpi
       /\ view.top.rows = <<>>
  /\ (/\ page = "data_loader"
      /\ FirstReadError(files, <<"athletes", "medals_total", "events">>) # "ok")
     => view.status = "ok"

\* C14: when medals_total.csv or events.csv is missing, the Sports and
\* Events loader returns empty tables that have their columns, and the page
\* script (schedule filters, treemap, venue map) completes without raising.
C14_SportsNoData ==
  (/\ page = "sports"
   /\ FirstReadError(files, <<"medals_total", "events">>) = "FileNotFoundError")
  => /\ view.status = "ok"
     /\ Empty(cache.sports.schedule_df)
     /\ HasCol(cache.sports.schedule_df, "Sport")
     /\ Empty(cache.sports.venue_df)
     /\ HasCol(cache.sports.venue_df, "Venue")

\* C15: when the medal-totals file has no country-code column, the Overview
\* page and the Global Analysis page complete without raising and show no
\* country option, a country count of 0 and no ranking row.
C15_NoCodeIsEmpty ==
  (AliasColumn(files.medals_total) = None /\ page \in {"overview", "global"})
  => /\ view.status = "ok"
     /\ sel.nocs = {}
     /\ view.kpi.countries = 0
     /\ view.top.rows = <<>>

\* ----------------------------------------------------- malformed values
\* athletes.csv with two athletes, every birth date well-formed, missing
\* or unparseable
MalformedAthletes ==
  {Table(<<"name", "gender", "country", "birth_date", "disciplines", "height", "weight">>,
         << <<"Ana", g[1], "USA", d[1], "['Swimming']", 170, 60>>,
            <<"Bo", g[2], "FRA", d[2], "['Athletics']", 180, 75>> >>) :
     g \in [1..2 -> {"Female", "Male"}],
     d \in [1..2 -> {"2000-07-26", "2004-07-27", "not-a-date", NaN}]}

\* medallists.csv with three records, every medal date well-formed or
\* unparseable, one record possibly without medal type
MalformedMedallists ==
  {Table(<<"name", "gender", "country_code", "discipline", "medal_type", "medal_date">>,
         << <<"Ana", "Female", "USA", "Swimming", "Gold Medal", d[1]>>,
            <<"Bo", "Male", "FRA", "Athletics", m, d[2]>>,
            <<"Cy", "Male", "ESP", "Cycling", "Bronze Medal", d[3]>> >>) :
     d \in [1..3 -> {"2024-07-27", "2024-07-28", "not-a-date"}],
     m \in {"Silver Medal", NaN}}

\* medals.csv: one row per medal won
ExampleAthleteMedals ==
  Table(<<"code", "name", "medal_type">>,
        << <<1, "Ana", "Gold Medal">>, <<2, "Bo", "Silver Medal">>,
           <<1, "Ana", "Bronze Medal">> >>)

MalformedFiles ==
  LET all == AllExist \cup {"medallists", "medals"}
      base == [Files(BaseAthletes, BaseEvents, ExampleMedals, BaseNocs,
                     NoTable, all) EXCEPT !.medals = ExampleAthleteMedals]
      a0 == CHOOSE a \in MalformedAthletes :
              a.rows[1][4] = "2000-07-26" /\ a.rows[2][4] = "not-a-date"
                /\ a.rows[1][2] = "Female" /\ a.rows[2][2] = "Male"
      m0 == CHOOSE m \in MalformedMedallists :
              m.rows[1][6] = "2024-07-27" /\ m.rows[2][6] = "not-a-date"
                /\ m.rows[3][6] = "2024-07-28" /\ m.rows[2][5] # NaN
  IN  {[base EXCEPT !.athletes = a, !.medallists = m0] :
         a \in MalformedAthletes}
      \cup {[base EXCEPT !.athletes = a0, !.medallists = m] :
         m \in MalformedMedallists}

\* the user moves between the bonus dashboard and the athlete page
NextMalformed ==
  \/ OpenBonus
  \/ OpenAthlete
  \/ FilterAthlete

InitMalformed == \E f \in MalformedFiles : Start(f)

SpecMalformed == InitMalformed /\ [][NextMalformed]_vars

\* a value that is there and is no date
MalformedDate(v) == v # NaN /\ v \notin ParsableDates

\* the names in the rows of a table, in row order
NamesOf(df, c) == [r \in DOMAIN df.rows |-> df.rows[r][ColIdx(df, c)]]

\* the medallist records of the file without the malformed and incomplete
\* ones
WellFormedMedallists(f) ==
  SelectSeq(f.medallists.rows,
            LAMBDA row : row[6] \in ParsableDates /\ row[5] # NaN)

\* the athletes of the file whose birth date is malformed
MalformedBirthNames(f) ==
  {f.athletes.rows[r][1] :
     r \in {q \in DOMAIN f.athletes.rows :
              MalformedDate(f.athletes.rows[q][4])}}

\* C16: a record with an unparseable date is removed and the load completes
\* with all well-formed records: the medallist loader returns exactly the
\* well-formed records of medallists.csv, and on the athlete page no athlete
\* with an unparseable birth date is among the rows of the age distribution
\* or counted in the gender distribution
C16_MalformedDropped ==
  /\ cache.medallists.status = "ok" =>
       NamesOf(cache.medallists.medallists, "Athlete_Name")
         = [r \in DOMAIN WellFormedMedallists(files) |->
              WellFormedMedallists(files)[r][1]]
  /\ (page = "athlete" /\ view.status = "ok") =>
       /\ \A r \in DOMAIN view.filtered_athletes.rows :
            view.filtered_athletes.rows[r][1] \notin MalformedBirthNames(files)
       /\ sel.nocs = {} =>
            SumSeq(NamesOf(view.agg, "count"))
              = Cardinality({r \in DOMAIN files.athletes.rows :
                               ~MalformedDate(files.athletes.rows[r][4])})

\* ------------------------------------------------------ resolver claims
\* the medal columns a medal-totals file may carry, in any order
ResolverNames == {"gold", "Gold", "Gold Medal", "Silver", "Bronze"}

\* one-row medal totals: the code column and three distinct medal columns
ResolverMedals ==
  {Table(<<"noc">> \o q, << <<"USA", 1, 2, 1>> >>) :
     q \in {p \in [1..3 -> ResolverNames] :
              \A i, j \in 1..3 : i # j => p[i] # p[j]}}

ResolverFiles ==
  {Files(BaseAthletes, BaseEvents, m, BaseNocs, NoTable, AllExist) :
     m \in ResolverMedals}

InitResolver == \E f \in ResolverFiles : Start(f)

\* the user stays on the Overview and Global Analysis pages, whose loaders
\* and KPIs resolve the medal columns
NextResolver ==
  \/ OpenOverview
  \/ FilterOverview
  \/ OpenGlobal
  \/ FilterGlobal

SpecResolver == InitResolver /\ [][NextResolver]_vars

\* the first column whose lower-cased name equals name; when there is none
\* the first column whose lower-cased name contains name; None otherwise
ExactThenSubstring(df, name) ==
  LET exact == {i \in DOMAIN df.cols : Lower(df.cols[i]) = name}
      sub == {i \in DOMAIN df.cols : StrIn(name, Lower(df.cols[i]))}
  IN  IF exact # {}
      THEN df.cols[CHOOSE i \in exact : \A j \in exact : i <= j]
      ELSE IF sub # {}
      THEN df.cols[CHOOSE i \in sub : \A j \in sub : i <= j]
      ELSE None

\* C17: on the medal totals a page has loaded, get_medal_column answers, for
\* each medal name, the first column that matches exactly whenever one
\* exists, else the first column that contains the name, else None
C17_ExactMatchFirst ==
  \A p \in {"overview", "global"} :
    (page = p /\ cache[p].status = "ok") =>
      \A m \in {"gold", "silver", "bronze"} :
        get_medal_column(cache[p].medals_total, m)
          = ExactThenSubstring(cache[p].medals_total, m)

\* ------------------------------------------------------ hierarchy claims
\* medallists.csv with two records: the code one of the medal totals, one
\* the totals do not hold, or missing; the discipline a sport, or missing;
\* and the same file without discipline column
HierarchyMedallists ==
  {Table(<<"name", "country_code", "discipline", "medal_type">>,
         << <<"Ana", c[1], d[1], "Gold Medal">>,
            <<"Bo", c[2], d[2], "Silver Medal">> >>) :
     c \in [1..2 -> {"USA", "FRA", NaN}],
     d \in [1..2 -> {"Swimming", "Cycling", NaN}]}
  \cup
  {Table(<<"name", "country_code", "medal_type">>,
         << <<"Ana", c[1], "Gold Medal">>, <<"Bo", c[2], "Silver Medal">> >>) :
     c \in [1..2 -> {"USA", "FRA", NaN}]}

HierarchyFiles ==
  {[Files(BaseAthletes, BaseEvents, ExampleMedals, RankNocs, NoTable,
          AllExist \cup {"medallists"}) EXCEPT !.medallists = m] :
     m \in HierarchyMedallists}

InitHierarchy == \E f \in HierarchyFiles : Start(f)

\* the user stays on the Global Analysis page
NextHierarchy ==
  \/ OpenGlobal
  \/ FilterGlobal

SpecHierarchy == InitHierarchy /\ [][NextHierarchy]_vars

\* C18: the hierarchical aggregation conserves rows: whenever the Global
\* Analysis page has filtered medallist records, the MedalCount values of
\* the count table add up to the number of those records
C18_RowsConserved ==
  (page = "global" /\ view.status = "ok" /\ ~Empty(view.filtered_medalists)) =>
    ColSum(view.hierarchy_counts, "MedalCount")
      = Len(view.filtered_medalists.rows)

\* -------------------------------------------------------- ranking claims
\* three countries whose totals tie in pairs, all three or not at all
TieTriples == { <<1, 0, 0>>, <<0, 1, 1>>, <<2, 0, 0>> }

TieMedals ==
  {Table(<<"country_code", "Gold", "Silver", "Bronze">>,
         [r \in 1..3 |-> << <<"USA", "CHN", "FRA">>[r] >> \o t[r]]) :
     t \in [1..3 -> TieTriples]}

TieFiles ==
  {Files(BaseAthletes, NoEvents, m, RankNocs, NoTable, AllExist) :
     m \in TieMedals}

InitTie == \E f \in TieFiles : Start(f)

\* the user stays on the two pages that rank countries
NextRanking ==
  \/ OpenOverview
  \/ FilterOverview
  \/ OpenGlobal
  \/ FilterGlobal

SpecRanking == InitTie /\ [][NextRanking]_vars

\* the rows by non-increasing c, rows of equal c in the order they had
StableSortDescending(df, c) ==
  LET n == Len(df.rows)
      ci == ColIdx(df, c)
      p == CHOOSE q \in [1..n -> 1..n] :
             /\ \A i, j \in 1..n : i # j => q[i] # q[j]
             /\ \A i, j \in 1..n :
                  i < j => \/ df.rows[q[i]][ci] > df.rows[q[j]][ci]
                           \/ /\ df.rows[q[i]][ci] = df.rows[q[j]][ci]
                              /\ q[i] < q[j]
  IN  [df EXCEPT !.rows = [i \in 1..n |-> df.rows[p[i]]]]

\* C19: the top-N ranking of the Overview page and of the Global Analysis
\* page is the head of the stable descending sort of the aggregate:
\* countries of equal total keep the order they had before sorting
C19_StableTies ==
  (page \in {"overview", "global"} /\ view.status = "ok" /\ view.agg # NoTable)
  => view.top = HeadRows(StableSortDescending(view.agg, "total"),
                         IF page = "overview" THEN TopNOverview ELSE TopNGlobal)

\* ---------------------------------------------------------- cache claims
InitCache == \E f \in FileStates : Start(f)

\* the Overview page is opened and filtered, the Global Analysis page and
\* utils/data_loader.py run, while the files change; the process may restart
NextCache ==
  \/ OpenOverview
  \/ FilterOverview
  \/ OpenGlobal
  \/ ImportDataLoader
  \/ ChangeFiles
  \/ Restart

SpecCache == InitCache /\ [][NextCache]_vars

\* the tables a loader returned are the ones st.cache_data holds afterwards;
\* of utils/data_loader.py, every table one of its loaders returned
KeptTables ==
  /\ \A p \in Pages \ {"data_loader"} :
       cache[p].status = "ok" => cache'[p] = cache[p]
  /\ \A t \in {"athletes", "medals_total", "events"} :
       cache.data_loader[t] # NoTable =>
         cache'.data_loader[t] = cache.data_loader[t]

\* a run of a page script whose loader had returned before works on the
\* tables returned then
RerunOnKept ==
  /\ (page' = "overview" /\ cache.overview.status = "ok"
        /\ <<page, sel, view>> # <<page', sel', view'>>) =>
       view' \in OverviewRun(cache.overview, sel')
  /\ (page' = "global" /\ cache.global.status = "ok"
        /\ <<page, sel, view>> # <<page', sel', view'>>) =>
       view' \in GlobalRun(cache.global, sel')

\* C20: in every step that is no restart, whatever the files have become,
\* every memoized loader that had returned keeps its tables and every rerun
\* of a page works on them
C20_CacheKept ==
  [][(page # "none" /\ page' = "none") \/ (KeptTables /\ RerunOnKept)]_vars

\* C20 witness: the Overview page is shown from the fallback tables cached
\* while medals_total.csv was missing, although every file exists by now
C20_Witness ==
  /\ page = "overview"
  /\ view.status = "ok"
  /\ cache.overview.status = "ok"
  /\ LoaderFilesExist(files)
  /\ AppLoadData(files).status = "ok"
  /\ cache.overview # AppLoadData(files)
  /\ Len(cache.overview.medals_total.rows) = 0
  /\ view.kpi.medals = 0

\* ------------------------------------------------------ top-N ranking
\* four-row medal totals: a country in two rows among three countries, a
\* row without country code
TopNMedals ==
  {Table(<<"country_code", "Gold", "Silver", "Bronze">>,
         [r \in 1..4 |-> <<codes[r]>> \o t[r]]) :
     codes \in { <<"USA", "CHN", "FRA", "USA">>, <<"USA", "CHN", NaN, "FRA">> },
     t \in [1..4 -> { <<1, 0, 0>>, <<0, MaxMedal, 1>> }]}

TopNFiles ==
  {Files(BaseAthletes, NoEvents, m, RankNocs, NoTable, AllExist) :
     m \in TopNMedals}

InitTopN == \E f \in TopNFiles : Start(f)

SpecTopN == InitTopN /\ [][NextRanking]_vars

\* the rows the ranking groups, each with the total it is ranked by: on the
\* Overview page the rows of top10 with its total column, on the Global
\* Analysis page the rows of top with the unselected columns zeroed
RankedRows ==
  LET fm == view.filtered_medals
      gold_col == get_medal_column(fm, "gold")
      silver_col == get_medal_column(fm, "silver")
      bronze_col == get_medal_column(fm, "bronze")
      z == ZeroUnselected(fm, gold_col, silver_col, bronze_col, sel)
  IN  IF page = "overview" THEN Project2(OverviewWithTotal(fm), "noc", "total")
      ELSE Table(<<"noc", "total">>,
                 [r \in DOMAIN z.rows |->
                    <<z.rows[r][ColIdx(z, "noc")],
                      RowSums(z, <<gold_col, silver_col, bronze_col>>)[r]>>])

\* the sum of the totals of the rows of one country code
CodeTotal(rows, code) ==
  SumSeq([r \in DOMAIN SelectSeq(rows, LAMBDA row : row[1] = code) |->
            SelectSeq(rows, LAMBDA row : row[1] = code)[r][2]])

\* C30: the top-N ranking has at most N rows, one row per country code it
\* contains, each with the sum of the totals of the code's rows, totals in
\* non-increasing order, and no country code of the filtered table that is
\* left out has a total greater than the total of an included one
C30_TopN ==
  (page \in {"overview", "global"} /\ view.status = "ok" /\ view.top # NoTable)
  => LET top == view.top
         n == Len(top.rows)
         ci == ColIdx(top, "noc")
         ti == ColIdx(top, "total")
         rows == RankedRows.rows
         included == {top.rows[i][ci] : i \in 1..n}
         codes == {rows[r][1] : r \in DOMAIN rows} \ {NaN}
     IN  /\ n <= (IF page = "overview" THEN TopNOverview ELSE TopNGlobal)
         /\ \A i, j \in 1..n : i # j => top.rows[i][ci] # top.rows[j][ci]
         /\ included \subseteq codes
         /\ \A i \in 1..n : top.rows[i][ti] = CodeTotal(rows, top.rows[i][ci])
         /\ \A i \in 1..(n - 1) : top.rows[i][ti] >= top.rows[i + 1][ti]
         /\ \A code \in codes \ included :
              \A i \in 1..n : CodeTotal(rows, code) <= top.rows[i][ti]

\* C30 witness: a ranking cut to N rows that holds a country of two input
\* rows with their summed total and leaves out a country of smaller total
C30_Witness ==
  /\ page \in {"overview", "global"}
  /\ view.status = "ok"
  /\ view.top # NoTable
  /\ Len(view.top.rows) = (IF page = "overview" THEN TopNOverview ELSE TopNGlobal)
  /\ Len(view.agg.rows) > Len(view.top.rows)
  /\ \E i \in DOMAIN view.top.rows :
       /\ view.top.rows[i][1] = "USA"
       /\ Cardinality({r \in DOMAIN view.filtered_medals.rows :
                         view.filtered_medals.rows[r][1] = "USA"}) = 2
       /\ view.top.rows[i][ColIdx(view.top, "total")] = 1 + MaxMedal + 1
  /\ \E code \in Unique(view.filtered_medals, "noc") :
       /\ \A i \in DOMAIN view.top.rows : view.top.rows[i][1] # code
       /\ CodeTotal(RankedRows.rows, code) < view.top.rows[Len(view.top.rows)][ColIdx(view.top, "total")]

\* ------------------------------------------------ zeroing works on a copy
\* the sum over the rows of one country code of its three medal columns
LoadedTotal(df, code) ==
  LET ni == ColIdx(df, "noc")
      of == SelectSeq(df.rows, LAMBDA row : row[ni] = code)
      cols == <<get_medal_column(df, "gold"), get_medal_column(df, "silver"), get_medal_column(df, "bronze")>>
  IN  SumSeq(RowSums([df EXCEPT !.rows = of], cols))

\* C28: a rerun of a ranking page leaves the memoized tables as they were,
\* its filtered medal totals are rows of the memoized table with the counts
\* they were loaded with whatever medal types are selected, and with every
\* medal type selected again the ranking shows the totals of the loaded counts
C28_PrivateCopy ==
  [][(page' \in {"overview", "global"} /\ view'.status = "ok"
        /\ cache[page'].status = "ok")
     => /\ cache'[page'] = cache[page']
        /\ \A r \in DOMAIN view'.filtered_medals.rows :
             \E q \in DOMAIN cache[page'].medals_total.rows :
               view'.filtered_medals.rows[r] = cache[page'].medals_total.rows[q]
        /\ (sel'.medals = MedalOptions /\ view'.agg # NoTable)
             => \A r \in DOMAIN view'.agg.rows :
                  view'.agg.rows[r][ColIdx(view'.agg, "total")]
                    = LoadedTotal(view'.filtered_medals, view'.agg.rows[r][1])]_vars

\* C28 witness: Gold is deselected, the ranking shows no gold medal, and the
\* filtered table and the memoized table still hold their gold medals
C28_Witness ==
  /\ page = "global"
  /\ view.status = "ok"
  /\ view.agg # NoTable
  /\ "Gold" \notin sel.medals
  /\ ColSum(view.agg, get_medal_column(view.agg, "gold")) = 0
  /\ ColSum(view.cont_agg, get_medal_column(view.cont_agg, "gold")) = 0
  /\ ColSum(view.filtered_medals, get_medal_column(view.filtered_medals, "gold")) > 0
  /\ view.filtered_medals = cache.global.medals_total

\* ------------------------------------------------- all-or-nothing loader
\* the Overview page over data directories with missing and empty files
SpecLoader == InitMissing /\ [][NextOverview]_vars

\* every file of the loader that exists can be parsed
ExistingReadable(f) ==
  \A i \in DOMAIN LoaderFiles :
    Exists(f, LoaderFiles[i]) => ReadError(f, LoaderFiles[i]) = "ok"

\* C27: when one of the four files is missing (the others readable) the
\* Overview/shared loader returns four tables without rows, also for the
\* files that exist; when all four are there and readable it returns the
\* tables read from them, none of them a fallback table
C27_AllOrNothing ==
  (page = "overview" /\ ExistingReadable(files))
  => /\ cache.overview.status = "ok"
     /\ ~LoaderFilesExist(files) =>
          /\ Empty(cache.overview.athletes)
          /\ Empty(cache.overview.events)
          /\ Empty(cache.overview.medals_total)
          /\ Empty(cache.overview.nocs)
     /\ LoaderFilesExist(files) =>
          /\ cache.overview.athletes = files.athletes
          /\ cache.overview.events = files.events
          /\ cache.overview.nocs.rows = files.nocs.rows
          /\ Len(cache.overview.medals_total.rows) >= Len(files.medals_total.rows)
          /\ cache.overview.athletes # Table(<<"id", "sport">>, <<>>)
          /\ cache.overview.events # Table(<<"sport", "event_id">>, <<>>)
          /\ cache.overview.medals_total
               # Table(<<"noc", "gold", "silver", "bronze", "total">>, <<>>)
          /\ cache.overview.nocs # Table(<<"noc", "country">>, <<>>)

\* C27 witness: only nocs.csv is missing; the athletes, events and medal
\* totals returned are empty although their files have rows
C27_Witness ==
  /\ page = "overview"
  /\ files.exists = {"athletes", "events", "medals_total"}
  /\ ~Empty(files.athletes) /\ ~Empty(files.events) /\ ~Empty(files.medals_total)
  /\ cache.overview.status = "ok"
  /\ Empty(cache.overview.athletes)
  /\ Empty(cache.overview.events)
  /\ Empty(cache.overview.medals_total)
  /\ view.status = "ok"

\* ---------------------------------------------------- medal-type filter
\* C25: on the Global Analysis page the medallist table after the medal-type
\* filter holds exactly the rows, of those the country and sport filters
\* keep, whose medal value names a selected medal type: none when no medal
\* type is selected or no value matches a selected type
C25_MedalFilterExact ==
  (page = "global" /\ view.status = "ok"
     /\ get_medal_column(view.filtered_medalists, "medal") # None)
  => LET m2 == MedalistsBySelection(cache.global, sel)
         mi == ColIdx(m2, get_medal_column(m2, "medal"))
     IN  view.filtered_medalists.rows
           = SelectSeq(m2.rows, LAMBDA row : FirstWord(row[mi]) \in sel.medals)

\* ------------------------------------------- Global Analysis fallback
\* C26: when a file the Global Analysis loader requires is missing, the
\* medal totals it falls back to have a noc, a total and a continent column
\* as the loaded ones have, and the page script completes without raising
C26_FallbackSchema ==
  (/\ page = "global"
   /\ FirstReadError(files, LoaderFiles) = "FileNotFoundError")
  => /\ cache.global.status = "ok"
     /\ HasCol(cache.global.medals_total, "noc")
     /\ get_total_column(cache.global.medals_total) # None
     /\ HasCol(cache.global.medals_total, "continent")
     /\ view.status = "ok"

\* ---------------------------------------------------------- label claims
\* metadata with a named country, a country whose name is missing, and no
\* row for FRA
LabelNocs ==
  Table(<<"code", "country", "continent">>,
        << <<"USA", "United States", "North America">>,
           <<"CHN", NaN, "Asia">> >>)

LabelMedals ==
  {Table(<<"country_code", "Gold", "Silver", "Bronze">>,
         << <<"USA", 2, 1, 0>>, <<"CHN", 1, g, 1>>, <<"FRA", 0, 1, MaxMedal>> >>) :
     g \in {0, 1}}

\* medallists.csv with two records of a named, an unnamed, an unmatched or a
\* missing country code
LabelMedallists ==
  {Table(<<"name", "country_code", "discipline", "medal_type">>,
         << <<"Ana", c[1], "Swimming", "Gold Medal">>,
            <<"Bo", c[2], "Swimming", "Silver Medal">> >>) :
     c \in { <<"USA", "FRA">>, <<"CHN", NaN>>, <<"FRA", "CHN">> }}

LabelFiles ==
  {[Files(BaseAthletes, BaseEvents, m, LabelNocs, NoTable,
          AllExist \cup {"medallists"}) EXCEPT !.medallists = h] :
     m \in LabelMedals, h \in LabelMedallists}

InitLabel == \E f \in LabelFiles : Start(f)

SpecLabel == InitLabel /\ [][NextRanking]_vars

\* the name the metadata hold for a country code (NaN: no row, or a row
\* without name)
MetadataName(nocs, code) ==
  LET hits == {r \in DOMAIN nocs.rows : nocs.rows[r][ColIdx(nocs, "noc")] = code}
  IN  IF hits = {} THEN NaN
      ELSE nocs.rows[CHOOSE r \in hits : \A q \in hits : r <= q][ColIdx(nocs, "country")]

\* C22: in the ranking of both pages and in the hierarchy counts no display
\* label is missing, a ranked country without a name in the metadata is
\* labelled with its code, and so is every counted medallist record of such
\* a country
C22_LabelNeverNull ==
  (page \in {"overview", "global"} /\ view.status = "ok")
  => /\ \A r \in DOMAIN view.labelled.rows :
          LET row == view.labelled.rows[r]
              code == row[ColIdx(view.labelled, "noc")]
              Country == row[ColIdx(view.labelled, "Country")]
          IN  /\ Country # NaN
              /\ MetadataName(cache[page].nocs, code) = NaN => Country = code
     /\ \A r \in DOMAIN view.hierarchy_counts.rows :
          view.hierarchy_counts.rows[r][2] # NaN
     /\ \A r \in DOMAIN view.filtered_medalists.rows :
          LET code == view.filtered_medalists.rows[r][ColIdx(view.filtered_medalists, "noc")]
          IN  (code # NaN /\ MetadataName(cache[page].nocs, code) = NaN)
              => \E q \in DOMAIN view.hierarchy_counts.rows :
                   view.hierarchy_counts.rows[q][2] = code

\* C22 witness: on the Global Analysis page FRA, which the metadata do not
\* hold, and CHN, whose name is missing, are ranked and counted under their
\* codes
C22_Witness ==
  /\ page = "global"
  /\ view.status = "ok"
  /\ \E r \in DOMAIN view.labelled.rows :
       /\ view.labelled.rows[r][1] = "FRA"
       /\ view.labelled.rows[r][ColIdx(view.labelled, "Country")] = "FRA"
  /\ \E r \in DOMAIN view.hierarchy_counts.rows :
       view.hierarchy_counts.rows[r][2] = "CHN"
  /\ \E r \in DOMAIN view.hierarchy_counts.rows :
       view.hierarchy_counts.rows[r][2] = "FRA"

\* ------------------------------------------------------ navigation claims
\* one session on the Overview app: it is opened, filtered and navigated,
\* the Global Analysis page and the bonus dashboard are visited in between,
\* the server may restart
NextNav ==
  \/ OpenOverview
  \/ FilterOverview
  \/ OpenGlobal
  \/ OpenBonus
  \/ ClickNav
  \/ DeliverNav
  \/ Restart

SpecNav == Init /\ [][NextNav]_vars

\* C23: the first run of the Overview script in a session sets active_page
\* to 'overview'; afterwards no rerun changes it, a rerun after a filter
\* change included, except the arrival of a navigation message, which sets
\* it to exactly the page the message asks for (a restart ends the session)
C23_ActivePage ==
  [][/\ (active_page = None /\ active_page' # None)
          => (page' = "overview" /\ active_page' = "overview")
     /\ page' = "overview" => active_page' # None
     /\ (active_page # None /\ active_page' # active_page)
          => \/ page' = "none" /\ active_page' = None
             \/ page = "overview" /\ message # None /\ active_page' = message
     /\ (page = "overview" /\ page' = "overview" /\ message # None /\ message' = None)
          => active_page' = message
     /\ (page' = page /\ sel' # sel) => active_page' = active_page]_vars

\* C23 witness: the session navigated to 'sports' and then narrowed the
\* medal-type filter: active_page is still 'sports'
C23_Witness ==
  /\ page = "overview"
  /\ active_page = "sports"
  /\ message = None
  /\ sel.medals = {"Gold"}
  /\ view.status = "ok"
  /\ view.top = NoTable

\* the link that stands for the page a session shows
OwnLink ==
  CASE page = "overview" -> active_page
    [] page = "global" -> "Global_Analysis"
    [] page = "bonus" -> "bonus"
    [] OTHER -> None

\* C24: on every page that draws the navbar exactly one link carries the
\* active class, and it is the link of the page being shown
C24_OneActiveLink ==
  navbar # <<>>
  => /\ Cardinality({i \in DOMAIN navbar : navbar[i][2] = "active"}) = 1
     /\ \A i \in DOMAIN navbar : navbar[i][2] = "active" <=> navbar[i][1] = OwnLink

\* ------------------------------------------------------- session claims
\* two browser sessions on the Overview app and the Global Analysis page of
\* one server, over medal totals of one country and a row without country
\* code: each session filters and navigates on its own
SessionFiles ==
  {Files(BaseAthletes, NoEvents,
         Table(<<"country_code", "Gold", "Silver", "Bronze">>,
               << <<"USA", MaxMedal, 1, 1>>, <<NaN, 1, 0, 0>> >>),
         BaseNocs, NoTable, AllExist)}

InitSessions == \E f \in SessionFiles : Start(f)

NextSessions ==
  \/ OpenOverview
  \/ FilterOverview
  \/ OpenGlobal
  \/ ClickNav
  \/ DeliverNav
  \/ SwitchSession

SpecSessions == InitSessions /\ [][NextSessions]_vars

\* the results a page script can compute from the memoized tables c under
\* the selection s
RunOn(c, p, s, active) ==
  IF p = "overview" THEN OverviewRunOn(c.overview, s, active)
  ELSE IF p = "global" THEN GlobalRun(c.global, s)
  ELSE {NoView("none")}

BonusMedallists ==
  {Table(<<"name", "gender", "country_code", "discipline", "medal_type", "medal_date">>,
         << <<"Ana", "Female", "USA", "Swimming", "Gold Medal", "2024-07-27">>,
            <<"Bo", "Male", "USA", "Athletics", "Silver Medal", "2024-07-27">>,
            <<"Cy", "Male", "USA", "Cycling", m3, "2024-07-28">>,
            <<"Di", "Female", "AUS", "Swimming", m4, "2024-07-28">> >>) :
     m3 \in {"Bronze Medal", "Gold Medal"},
     m4 \in {"Gold Medal", "Silver Medal", "Bronze Medal"}}

BonusMedalTotals ==
  Table(<<"country_code", "Gold Medal", "Silver Medal", "Bronze Medal", "Total">>,
        << <<"USA", 1, 1, 1, 3>>, <<"AUS", 1, 0, 0, 1>>,
           <<"KEN", 0, 1, 0, 1>> >>)

BonusFiles ==
  {[Files(BaseAthletes, BaseEvents, BonusMedalTotals, BaseNocs, NoTable,
          AllExist \cup {"medallists"}) EXCEPT !.medallists = m] :
     m \in BonusMedallists}

InitBonus == \E f \in BonusFiles : Start(f)

\* the user opens the bonus dashboard and uses its selectors
NextBonus ==
  \/ OpenBonus
  \/ FilterBonus
  \/ Restart

SpecBonus == InitBonus /\ [][NextBonus]_vars

\* a pivot carries the three medal columns and a Total that is their sum
PivotComplete(p) ==
  /\ \A k \in DOMAIN MedalColumns : HasCol(p, MedalColumns[k])
  /\ HasCol(p, "Total")
  /\ \A r \in DOMAIN p.rows :
       p.rows[r][ColIdx(p, "Total")] =
         p.rows[r][ColIdx(p, "Gold Medal")]
           + p.rows[r][ColIdx(p, "Silver Medal")]
           + p.rows[r][ColIdx(p, "Bronze Medal")]

\* C29: on the bonus dashboard with both tables loaded, for every selection
\* of its widgets the script completes, and the pivot of the ranking, the
\* pivot of the continental breakdown (when a continent is selected) and
\* the pivot of the comparison each have the Gold Medal, Silver Medal and
\* Bronze Medal columns and Total = Gold Medal + Silver Medal + Bronze Medal
C29_PivotColumns ==
  (/\ page = "bonus"
   /\ cache.medallists.status = "ok" /\ cache.bonus.status = "ok"
   /\ ~Empty(cache.medallists.medallists)
   /\ ~Empty(cache.bonus.medals_total))
    => /\ view.status = "ok"
       /\ PivotComplete(view.medals_pivot)
       /\ PivotComplete(view.comparison_pivot)
       /\ sel.ch3_continent_breakdown # None => PivotComplete(view.bar_data_3)

====
